---- MODULE Spec2Model ----
(***************************************************************************)
(* Pattern-based quantization annotation (torch.ao.quantization._pt2e):    *)
(* the sequential partition finder of graph_utils.py and the annotation    *)
(* passes of QNNPackQuantizer and X86InductorQuantizer, run over bounded   *)
(* traced graphs.                                                          *)
(***************************************************************************)
EXTENDS Naturals, Sequences, FiniteSets, TLC

VARIABLES
    graph,          \* the traced graph handed to annotate: a sequence of nodes
    backend,        \* which quantizer class was constructed
    global_config,  \* Quantizer.global_config
    meta,           \* node -> node.meta["quantization_annotation"]
    pc,             \* the annotator the running annotate call is about to enter, or "idle"
    nset,           \* set_global calls made so far
    log,            \* one record per annotate call: its config, the annotations it
                    \* was entered with, how it ended and in which annotator
    fsp,            \* the last find_sequential_partitions call and its outcome
    operator_type_config,       \* Quantizer.operator_type_config
    _QUANT_CONFIG_TO_ANNOTATOR, \* the annotator registry of the quantizer's module
    call,           \* the last registry or catalog call and its outcome
    recompute,      \* node.meta["recompute"] of every node of the graph
    ckpt            \* the last TagActivationCheckpoint call and its outcome

vars == <<graph, backend, global_config, meta, pc, nset, log, fsp,
          operator_type_config, _QUANT_CONFIG_TO_ANNOTATOR, call, recompute, ckpt>>

(***************************************************************************)
(* Bounds of the model.                                                    *)
(***************************************************************************)
\* operator instances (source partitions) per traced graph
MaxOps == 3
\* operator instances per traced graph that also holds linear, pooling,
\* hardtanh or mean instances
MaxWideOps == 2
\* annotate calls per behaviour
MaxCalls == 2
\* set_global calls per behaviour
MaxSetGlobal == 1
\* length of the type sequences handed to find_sequential_partitions
MaxSeq == 3
\* length of the equivalence lists handed to _create_equivalent_types_dict
MaxEqSets == 2
\* operator instances per graph when the registry is a custom one
MaxCustomOps == 2
\* operator types given a configuration of their own per quantizer
MaxOperatorTypes == 2
\* length of the config lists handed to register_annotator
MaxRegister == 2
MaxPreOps == 2
MaxPre == 1

(***************************************************************************)
(* Small helpers on sequences and sets.                                    *)
(***************************************************************************)
Range(s) == {s[i] : i \in 1..Len(s)}

Min(S) == CHOOSE m \in S : \A k \in S : m <= k

\* list(<set of nodes>) in graph order
RECURSIVE SortedSeq(_)
SortedSeq(S) ==
    IF S = {} THEN <<>>
    ELSE LET m == Min(S) IN <<m>> \o SortedSeq(S \ {m})

RECURSIVE Flatten(_)
Flatten(ss) ==
    IF ss = <<>> THEN <<>> ELSE Head(ss) \o Flatten(Tail(ss))

RECURSIVE SelectIdx(_, _, _)
SelectIdx(s, P(_), i) ==
    IF i > Len(s) THEN <<>>
    ELSE (IF P(s[i]) THEN <<s[i]>> ELSE <<>>) \o SelectIdx(s, P, i + 1)

(***************************************************************************)
(* Operator identities (source_fn types) and aten targets.                 *)
(***************************************************************************)
Types == {"nn.Conv2d", "F.conv2d", "nn.AdaptiveAvgPool2d", "F.adaptive_avg_pool2d",
          "nn.ReLU", "F.relu", "F.relu_", "nn.BatchNorm2d", "F.batch_norm",
          "nn.Hardtanh", "F.hardtanh", "F.hardtanh_",
          "torch.add", "operator.add", "operator.iadd",
          "nn.Linear", "F.linear", "nn.MaxPool2d", "F.max_pool2d", "torch.mean"}

\* graph_utils._EQUIVALENT_TYPES
_EQUIVALENT_TYPES ==
    << {"nn.Conv2d", "F.conv2d"},
       {"nn.AdaptiveAvgPool2d", "F.adaptive_avg_pool2d"},
       {"nn.ReLU", "F.relu", "F.relu_"},
       {"nn.BatchNorm2d", "F.batch_norm"},
       {"nn.Hardtanh", "F.hardtanh", "F.hardtanh_"},
       {"torch.add", "operator.add", "operator.iadd"} >>

(***************************************************************************)
(* The traced graph.  A node is                                            *)
(*   [op, target, args, src, styp, ndim]                                   *)
(* args holds node indices, 0 standing for an argument that is no Node     *)
(* (None or a scalar); src/styp are node.meta["source_fn"] (name, type),   *)
(* src = 0 when the node has none; ndim is the rank of the tensor a        *)
(* get_attr node names.                                                    *)
(***************************************************************************)
NonNode == 0

Node(op, target, args, src, styp, ndim) ==
    [op |-> op, target |-> target, args |-> args, src |-> src, styp |-> styp, ndim |-> ndim]

NodeIds(g) == 1..Len(g)

IsNode(a) == a # NonNode

\* node.users: the nodes that take n as an argument
Users(g, n) == {m \in NodeIds(g) : \E i \in 1..Len(g[m].args) : g[m].args[i] = n}

(***************************************************************************)
(* torch.fx.passes.utils.source_matcher_utils (outside the source tree):   *)
(* SourcePartition, get_source_partitions, check_subgraphs_connected.      *)
(***************************************************************************)
\* make_partition: nodes (in graph order), the arguments coming from outside,
\* the nodes used outside, and the get_attr nodes
make_partition(g, nodes, module_type) ==
    LET ns == Range(nodes) IN
    [nodes        |-> nodes,
     source       |-> module_type,
     input_nodes  |-> SortedSeq({a \in UNION {Range(g[n].args) : n \in ns} :
                                    IsNode(a) /\ a \notin ns}),
     output_nodes |-> SortedSeq({n \in ns : Users(g, n) \ ns # {}}),
     params       |-> SortedSeq({n \in ns : g[n].op = "get_attr"})]

\* the wanted nodes, grouped by source type and then by source name, both in
\* order of first appearance: a sequence of [type, partitions]
RECURSIVE TypesInOrder(_, _, _, _)
TypesInOrder(g, wanted, i, seen) ==
    IF i > Len(g) THEN <<>>
    ELSE IF g[i].src # 0 /\ g[i].styp \in wanted /\ g[i].styp \notin seen
         THEN <<g[i].styp>> \o TypesInOrder(g, wanted, i + 1, seen \cup {g[i].styp})
         ELSE TypesInOrder(g, wanted, i + 1, seen)

get_source_partitions(g, wanted_sources) ==
    LET tys == TypesInOrder(g, wanted_sources, 1, {})
        names(t) == SortedSeq({g[n].src : n \in {m \in NodeIds(g) : g[m].src # 0 /\ g[m].styp = t}})
        part(t, nm) == make_partition(g, SortedSeq({n \in NodeIds(g) : g[n].styp = t /\ g[n].src = nm}), t)
    IN [k \in 1..Len(tys) |->
            [type |-> tys[k],
             partitions |-> [j \in 1..Len(names(tys[k])) |-> part(tys[k], names(tys[k])[j])]]]

\* itertools.chain(*partitions.values())
chain_values(d) == Flatten([k \in 1..Len(d) |-> d[k].partitions])

check_subgraphs_connected(g, subgraph1, subgraph2) ==
    \E n \in Range(subgraph1.nodes) : Users(g, n) \cap Range(subgraph2.nodes) # {}

(***************************************************************************)
(* graph_utils.py                                                          *)
(***************************************************************************)
\* _create_equivalent_types_dict: every member of every set is keyed to its
\* set; a member of two sets keeps the later one
RECURSIVE CreateDictFrom(_, _, _)
CreateDictFrom(equivalent_types, i, d) ==
    IF i > Len(equivalent_types) THEN d
    ELSE LET values == equivalent_types[i] IN
         CreateDictFrom(equivalent_types, i + 1,
            [v \in DOMAIN d \cup values |-> IF v \in values THEN values ELSE d[v]])

EmptyDict == [v \in {} |-> {}]

\* _create_equivalent_types_dict with the assignment moved out of the inner
\* loop: only the member the loop visited last is keyed
create_dict_last_member(equivalent_types) ==
    LET last(values) == CHOOSE v \in values : TRUE
        keyed == {last(equivalent_types[i]) : i \in 1..Len(equivalent_types)}
    IN [v \in keyed |->
           equivalent_types[CHOOSE i \in 1..Len(equivalent_types) :
               /\ last(equivalent_types[i]) = v
               /\ \A j \in (i + 1)..Len(equivalent_types) : last(equivalent_types[j]) # v]]

_create_equivalent_types_dict(equivalent_types) ==
    CreateDictFrom(equivalent_types, 1, EmptyDict)

_EQUIVALET_TYPES_DICT == _create_equivalent_types_dict(_EQUIVALENT_TYPES)

\* _get_matching_types without the initial [partition_type]
get_matching_types_registered_only(partition_type, equivalet_types_dict) ==
    IF partition_type \in DOMAIN equivalet_types_dict
    THEN equivalet_types_dict[partition_type] ELSE {}

\* _get_matching_types: [partition_type] extended by the registered list; the
\* callers read it by membership only, so it is kept as the set of its entries
_get_matching_types(partition_type, equivalet_types_dict) ==
    {partition_type} \cup
        (IF partition_type \in DOMAIN equivalet_types_dict
         THEN equivalet_types_dict[partition_type] ELSE {})

RECURSIVE ValidFrom(_, _, _, _)
ValidFrom(partition_types, d, i, partition_types_set) ==
    IF i > Len(partition_types) THEN TRUE
    ELSE LET matching_types_set == _get_matching_types(partition_types[i], d) IN
         IF partition_types_set \cap matching_types_set # {} THEN FALSE
         ELSE ValidFrom(partition_types, d, i + 1, partition_types_set \cup matching_types_set)

\* _valid_type_sequence comparing the listed types only, not what they match
valid_type_sequence_by_identity(partition_types, equivalet_types_dict) ==
    \A i, j \in 1..Len(partition_types) : i # j => partition_types[i] # partition_types[j]

_valid_type_sequence(partition_types, equivalet_types_dict) ==
    ValidFrom(partition_types, equivalet_types_dict, 1, {})

\* _partitions_sequential: walk the consecutive pairs, stop at the first
\* pair that is not connected
RECURSIVE SequentialFrom(_, _, _)
SequentialFrom(g, partitions, i) ==
    IF i >= Len(partitions) THEN TRUE
    ELSE IF ~check_subgraphs_connected(g, partitions[i], partitions[i + 1]) THEN FALSE
    ELSE SequentialFrom(g, partitions, i + 1)

\* _partitions_sequential that never advances prev_partition past the first
partitions_sequential_first_only(g, partitions) ==
    \A i \in 2..Len(partitions) : check_subgraphs_connected(g, partitions[1], partitions[i])

_partitions_sequential(g, partitions) == SequentialFrom(g, partitions, 1)

\* itertools.product with the last list varying slowest
RECURSIVE product_last_slowest(_)
product_last_slowest(lists) ==
    IF lists = <<>> THEN << <<>> >>
    ELSE LET front == product_last_slowest(SubSeq(lists, 1, Len(lists) - 1))
             last == lists[Len(lists)]
         IN Flatten([i \in 1..Len(last) |->
                        [j \in 1..Len(front) |-> Append(front[j], last[i])]])

\* itertools.product(*lists): the first list varies slowest
RECURSIVE product(_)
product(lists) ==
    IF lists = <<>> THEN << <<>> >>
    ELSE LET rest == product(Tail(lists))
             first == Head(lists)
         IN Flatten([i \in 1..Len(first) |->
                        [j \in 1..Len(rest) |-> <<first[i]>> \o rest[j]]])

\* find_sequential_partitions: [err, queries, fused_partitions]; queries
\* counts the get_source_partitions calls made
find_sequential_partitions(g, partition_types, equivalet_types_dict) ==
    IF ~_valid_type_sequence(partition_types, equivalet_types_dict)
    THEN [err |-> "ValueError", queries |-> 0, fused_partitions |-> <<>>]
    ELSE LET typed_partitions_list ==
                 [k \in 1..Len(partition_types) |->
                     chain_values(get_source_partitions(g,
                         _get_matching_types(partition_types[k], equivalet_types_dict)))]
             fusion_candidates == product(typed_partitions_list)
             ok(c) == _partitions_sequential(g, c)
         IN [err |-> "none", queries |-> Len(partition_types),
             fused_partitions |-> SelectIdx(fusion_candidates, ok, 1)]

(***************************************************************************)
(* Quantization intent model (quantizer.py and utils.py, outside the       *)
(* source tree) and the configurations the two backends build.             *)
(***************************************************************************)
NoneSpec == "None"

\* get_symmetric_quantization_config(is_per_channel, is_qat): the activation
\* observer follows is_qat; the weight's qscheme follows is_per_channel and
\* its observer is the fake quantize under is_qat, else the per-channel
\* observer under is_per_channel, else MinMaxObserver
get_symmetric_quantization_config(is_per_channel, is_qat) ==
    LET weight_qscheme == IF is_per_channel THEN "per_channel_symmetric"
                          ELSE "per_tensor_symmetric"
        weight_observer == IF is_qat THEN "FusedMovingAvgObsFakeQuantize"
                           ELSE IF is_per_channel THEN "PerChannelMinMaxObserver"
                           ELSE "MinMaxObserver"
    IN [activation |-> IF is_qat THEN "int8_affine_FusedMovingAvgObsFakeQuantize"
                       ELSE "int8_affine_HistogramObserver",
        weight     |-> "int8_" \o weight_qscheme \o "_" \o weight_observer,
        bias       |-> "float_PlaceholderObserver",
        is_qat     |-> is_qat]

\* get_default_x86_inductor_quantization_config(); is_qat keeps its default
get_default_x86_inductor_quantization_config ==
    [activation |-> "uint8_affine_HistogramObserver",
     weight     |-> "int8_per_channel_symmetric_PerChannelMinMaxObserver",
     bias       |-> "float_PlaceholderObserver",
     is_qat     |-> FALSE]

\* a global_config is the name of a configuration, or "None" (never set)
ConfigNames == {"symmetric", "symmetric_qat", "symmetric_per_channel",
                "symmetric_per_channel_qat", "x86_default"}

ConfigOf(name) ==
    CASE name = "symmetric"     -> get_symmetric_quantization_config(FALSE, FALSE)
      [] name = "symmetric_qat" -> get_symmetric_quantization_config(FALSE, TRUE)
      [] name = "symmetric_per_channel" ->
             get_symmetric_quantization_config(TRUE, FALSE)
      [] name = "symmetric_per_channel_qat" ->
             get_symmetric_quantization_config(TRUE, TRUE)
      [] name = "x86_default"   -> get_default_x86_inductor_quantization_config

get_act_qspec(quantization_config) ==
    IF quantization_config = "None" THEN NoneSpec ELSE ConfigOf(quantization_config).activation

get_weight_qspec(quantization_config) ==
    IF quantization_config = "None" THEN NoneSpec ELSE ConfigOf(quantization_config).weight

get_bias_qspec(quantization_config) ==
    IF quantization_config = "None" THEN NoneSpec ELSE ConfigOf(quantization_config).bias

\* a dict, as a function on its keys
EmptyMap == [k \in {} |-> NoneSpec]

MapSet(m, k, v) == [x \in DOMAIN m \cup {k} |-> IF x = k THEN v ELSE m[x]]

\* node.meta["quantization_annotation"]: present says whether the key exists
QuantizationAnnotation(input_qspec_map, output_qspec, share, annotated) ==
    [present |-> TRUE,
     input_qspec_map |-> input_qspec_map,
     output_qspec |-> output_qspec,
     _input_output_share_observers |-> share,
     _annotated |-> annotated]

DefaultAnnotation == QuantizationAnnotation(EmptyMap, NoneSpec, FALSE, FALSE)

NoAnn == [DefaultAnnotation EXCEPT !.present = FALSE]

\* node.meta.get("quantization_annotation", QuantizationAnnotation())
MetaGet(m, n) == IF m[n].present THEN m[n] ELSE DefaultAnnotation

_annotate_input_qspec_map(m, node, input_node, qspec) ==
    LET qa == MetaGet(m, node) IN
    [m EXCEPT ![node] = [qa EXCEPT !.input_qspec_map = MapSet(qa.input_qspec_map, input_node, qspec)]]

_annotate_output_qspec(m, node, qspec) ==
    [m EXCEPT ![node] = [MetaGet(m, node) EXCEPT !.output_qspec = qspec]]

(***************************************************************************)
(* qnnpack_quantizer.py: helpers                                           *)
(***************************************************************************)
\* nodes is a sequence; NonNode entries (None) are passed over
RECURSIVE MarkFrom(_, _, _)
MarkFrom(m, nodes, i) ==
    IF i > Len(nodes) THEN m
    ELSE IF ~IsNode(nodes[i]) THEN MarkFrom(m, nodes, i + 1)
    ELSE MarkFrom([m EXCEPT ![nodes[i]] = [MetaGet(m, nodes[i]) EXCEPT !._annotated = TRUE]],
                  nodes, i + 1)

\* _mark_nodes_as_annotated that creates missing annotations but leaves the
\* flag as it is
mark_nodes_without_flag(m, nodes) ==
    [n \in DOMAIN m |-> IF n \in Range(nodes) THEN MetaGet(m, n) ELSE m[n]]

_mark_nodes_as_annotated(m, nodes) == MarkFrom(m, nodes, 1)

\* _is_annotated looking under a key no annotator writes: never annotated
is_annotated_never(m, nodes) == FALSE

\* _is_annotated with the flag test negated
is_annotated_negated(m, nodes) ==
    \E i \in 1..Len(nodes) : m[nodes[i]].present /\ ~m[nodes[i]]._annotated

\* _is_annotated asking for every node of the list to be annotated
is_annotated_all(m, nodes) ==
    \A i \in 1..Len(nodes) : m[nodes[i]].present /\ m[nodes[i]]._annotated

\* _is_annotated looking at the first node of the list only
is_annotated_first_only(m, nodes) ==
    nodes # <<>> /\ m[nodes[1]].present /\ m[nodes[1]]._annotated

\* any node of the list carries an annotation with _annotated set
_is_annotated(m, nodes) ==
    \E i \in 1..Len(nodes) : m[nodes[i]].present /\ m[nodes[i]]._annotated

\* the outcome of an annotator, or of one of its loop iterations
Ok(m) == [meta |-> m, err |-> "none"]
Raise(m, e) == [meta |-> m, err |-> e]

\* for item in items: step(item); a raise ends the loop
RECURSIVE ForEach(_, _, _, _)
ForEach(items, Step(_, _), i, m) ==
    IF i > Len(items) THEN Ok(m)
    ELSE LET r == Step(items[i], m) IN
         IF r.err # "none" THEN r ELSE ForEach(items, Step, i + 1, r.meta)

\* conv_input_qspec_map keying the bias spec under the bias argument
\* whatever it is
conv_input_qspec_map_any_bias(g, conv_node, quantization_config) ==
    LET args == g[conv_node].args IN
    IF Len(args) < 1 THEN [err |-> "IndexError", map |-> EmptyMap]
    ELSE IF ~IsNode(args[1]) THEN [err |-> "AssertionError", map |-> EmptyMap]
    ELSE IF Len(args) < 2 THEN [err |-> "IndexError", map |-> EmptyMap]
    ELSE IF ~IsNode(args[2]) THEN [err |-> "AssertionError", map |-> EmptyMap]
    ELSE IF Len(args) < 3 THEN [err |-> "IndexError", map |-> EmptyMap]
    ELSE LET m1 == MapSet(EmptyMap, args[1], get_act_qspec(quantization_config))
             m2 == MapSet(m1, args[2], get_weight_qspec(quantization_config))
         IN [err |-> "none",
             map |-> MapSet(m2, args[3], get_bias_qspec(quantization_config))]

\* conv_input_qspec_map giving the bias the weight's spec
conv_input_qspec_map_bias_as_weight(g, conv_node, quantization_config) ==
    LET args == g[conv_node].args IN
    IF Len(args) < 1 THEN [err |-> "IndexError", map |-> EmptyMap]
    ELSE IF ~IsNode(args[1]) THEN [err |-> "AssertionError", map |-> EmptyMap]
    ELSE IF Len(args) < 2 THEN [err |-> "IndexError", map |-> EmptyMap]
    ELSE IF ~IsNode(args[2]) THEN [err |-> "AssertionError", map |-> EmptyMap]
    ELSE IF Len(args) < 3 THEN [err |-> "IndexError", map |-> EmptyMap]
    ELSE LET m1 == MapSet(EmptyMap, args[1], get_act_qspec(quantization_config))
             m2 == MapSet(m1, args[2], get_weight_qspec(quantization_config))
         IN [err |-> "none",
             map |-> IF IsNode(args[3])
                     THEN MapSet(m2, args[3], get_weight_qspec(quantization_config))
                     ELSE m2]

\* the conv node's input_qspec_map: activation, weight and, when the bias
\* argument is a Node, bias; [err, map]
conv_input_qspec_map(g, conv_node, quantization_config) ==
    LET args == g[conv_node].args IN
    IF Len(args) < 1 THEN [err |-> "IndexError", map |-> EmptyMap]
    ELSE IF ~IsNode(args[1]) THEN [err |-> "AssertionError", map |-> EmptyMap]
    ELSE IF Len(args) < 2 THEN [err |-> "IndexError", map |-> EmptyMap]
    ELSE IF ~IsNode(args[2]) THEN [err |-> "AssertionError", map |-> EmptyMap]
    ELSE IF Len(args) < 3 THEN [err |-> "IndexError", map |-> EmptyMap]
    ELSE LET m1 == MapSet(EmptyMap, args[1], get_act_qspec(quantization_config))
             m2 == MapSet(m1, args[2], get_weight_qspec(quantization_config))
         IN [err |-> "none",
             map |-> IF IsNode(args[3])
                     THEN MapSet(m2, args[3], get_bias_qspec(quantization_config))
                     ELSE m2]

IsAtenConv(g, n) ==
    g[n].op = "call_function" /\ g[n].target = "aten.convolution.default"

(***************************************************************************)
(* qnnpack_quantizer.py: the pattern annotators of QNNPackQuantizer.  Each *)
(* takes the graph, the configuration and the annotations, and gives the   *)
(* annotations it leaves and the exception it raised ("none": returned).   *)
(***************************************************************************)
QNNPack_annotate_conv2d_bn(g, quantization_config, m0) ==
    LET fused == find_sequential_partitions(g, <<"nn.Conv2d", "nn.BatchNorm2d">>, _EQUIVALET_TYPES_DICT)
        step(fused_partition, m) ==
            LET conv_partition == fused_partition[1]
                bn_partition == fused_partition[2]
            IN
            IF Len(conv_partition.output_nodes) > 1 THEN Raise(m, "ValueError")
            ELSE IF Len(conv_partition.output_nodes) = 0 THEN Raise(m, "IndexError")
            ELSE LET conv_node == conv_partition.output_nodes[1] IN
            IF Cardinality(Users(g, conv_node)) > 1 THEN Raise(m, "ValueError")
            ELSE IF Len(bn_partition.output_nodes) > 1 THEN Raise(m, "ValueError")
            ELSE IF Len(bn_partition.output_nodes) = 0 THEN Raise(m, "IndexError")
            ELSE LET bn_output_node == bn_partition.output_nodes[1] IN
            IF _is_annotated(m, <<bn_output_node, conv_node>>) THEN Ok(m)
            ELSE LET iq == conv_input_qspec_map(g, conv_node, quantization_config) IN
            IF iq.err # "none" THEN Raise(m, iq.err)
            ELSE LET m1 == [m EXCEPT
                        ![conv_node] = QuantizationAnnotation(iq.map, NoneSpec, FALSE, TRUE)]
                     m2 == [m1 EXCEPT
                        ![bn_output_node] = QuantizationAnnotation(EmptyMap,
                                                get_act_qspec(quantization_config), FALSE, TRUE)]
                 IN Ok(_mark_nodes_as_annotated(m2, conv_partition.nodes \o bn_partition.nodes))
    IN IF fused.err # "none" THEN Raise(m0, fused.err)
       ELSE ForEach(fused.fused_partitions, step, 1, m0)

\* _annotate_conv2d_bn_relu without the test of the conv node's users
conv2d_bn_relu_any_users(g, quantization_config, m0) ==
    LET fused == find_sequential_partitions(g, <<"nn.Conv2d", "nn.BatchNorm2d", "nn.ReLU">>,
                                            _EQUIVALET_TYPES_DICT)
        step(fused_partition, m) ==
            LET conv_partition == fused_partition[1]
                bn_partition == fused_partition[2]
                relu_partition == fused_partition[3]
            IN
            IF Len(relu_partition.output_nodes) > 1 THEN Raise(m, "ValueError")
            ELSE IF Len(relu_partition.output_nodes) = 0 THEN Raise(m, "IndexError")
            ELSE LET relu_node == relu_partition.output_nodes[1] IN
            IF Len(conv_partition.output_nodes) > 1 THEN Raise(m, "ValueError")
            ELSE IF Len(conv_partition.output_nodes) = 0 THEN Raise(m, "IndexError")
            ELSE LET conv_node == conv_partition.output_nodes[1] IN
            IF Len(bn_partition.output_nodes) > 1 THEN Raise(m, "ValueError")
            ELSE IF Len(bn_partition.output_nodes) = 0 THEN Raise(m, "IndexError")
            ELSE LET bn_output_node == bn_partition.output_nodes[1] IN
            IF _is_annotated(m, <<relu_node, bn_output_node, conv_node>>) THEN Ok(m)
            ELSE LET iq == conv_input_qspec_map(g, conv_node, quantization_config) IN
            IF iq.err # "none" THEN Raise(m, iq.err)
            ELSE LET m1 == [m EXCEPT
                        ![conv_node] = QuantizationAnnotation(iq.map, NoneSpec, FALSE, TRUE)]
                     m2 == [m1 EXCEPT
                        ![relu_node] = QuantizationAnnotation(EmptyMap,
                                                get_act_qspec(quantization_config), FALSE, TRUE)]
                 IN Ok(_mark_nodes_as_annotated(m2,
                        conv_partition.nodes \o bn_partition.nodes \o relu_partition.nodes))
    IN IF fused.err # "none" THEN Raise(m0, fused.err)
       ELSE ForEach(fused.fused_partitions, step, 1, m0)

QNNPack_annotate_conv2d_bn_relu(g, quantization_config, m0) ==
    LET fused == find_sequential_partitions(g, <<"nn.Conv2d", "nn.BatchNorm2d", "nn.ReLU">>,
                                            _EQUIVALET_TYPES_DICT)
        step(fused_partition, m) ==
            LET conv_partition == fused_partition[1]
                bn_partition == fused_partition[2]
                relu_partition == fused_partition[3]
            IN
            IF Len(relu_partition.output_nodes) > 1 THEN Raise(m, "ValueError")
            ELSE IF Len(relu_partition.output_nodes) = 0 THEN Raise(m, "IndexError")
            ELSE LET relu_node == relu_partition.output_nodes[1] IN
            IF Len(conv_partition.output_nodes) > 1 THEN Raise(m, "ValueError")
            ELSE IF Len(conv_partition.output_nodes) = 0 THEN Raise(m, "IndexError")
            ELSE LET conv_node == conv_partition.output_nodes[1] IN
            IF Cardinality(Users(g, conv_node)) > 1 THEN Raise(m, "ValueError")
            ELSE IF Len(bn_partition.output_nodes) > 1 THEN Raise(m, "ValueError")
            ELSE IF Len(bn_partition.output_nodes) = 0 THEN Raise(m, "IndexError")
            ELSE LET bn_output_node == bn_partition.output_nodes[1] IN
            IF _is_annotated(m, <<relu_node, bn_output_node, conv_node>>) THEN Ok(m)
            ELSE LET iq == conv_input_qspec_map(g, conv_node, quantization_config) IN
            IF iq.err # "none" THEN Raise(m, iq.err)
            ELSE LET m1 == [m EXCEPT
                        ![conv_node] = QuantizationAnnotation(iq.map, NoneSpec, FALSE, TRUE)]
                     m2 == [m1 EXCEPT
                        ![relu_node] = QuantizationAnnotation(EmptyMap,
                                                get_act_qspec(quantization_config), FALSE, TRUE)]
                 IN Ok(_mark_nodes_as_annotated(m2,
                        conv_partition.nodes \o bn_partition.nodes \o relu_partition.nodes))
    IN IF fused.err # "none" THEN Raise(m0, fused.err)
       ELSE ForEach(fused.fused_partitions, step, 1, m0)

QNNPack_annotate_conv2d_relu(g, quantization_config, m0) ==
    LET fused == find_sequential_partitions(g, <<"nn.Conv2d", "nn.ReLU">>, _EQUIVALET_TYPES_DICT)
        step(fused_partition, m) ==
            LET conv_partition == fused_partition[1]
                relu_partition == fused_partition[2]
            IN
            IF Len(relu_partition.output_nodes) > 1 THEN Raise(m, "ValueError")
            ELSE IF Len(relu_partition.output_nodes) = 0 THEN Raise(m, "IndexError")
            ELSE LET relu_node == relu_partition.output_nodes[1] IN
            IF Len(conv_partition.output_nodes) > 1 THEN Raise(m, "ValueError")
            ELSE IF Len(conv_partition.output_nodes) = 0 THEN Raise(m, "IndexError")
            ELSE LET conv_node == conv_partition.output_nodes[1] IN
            IF ~IsAtenConv(g, conv_node) THEN Raise(m, "ValueError")
            ELSE IF g[relu_node].op # "call_function"
                    \/ g[relu_node].target \notin {"aten.relu.default", "aten.relu_.default"}
                 THEN Raise(m, "ValueError")
            ELSE IF _is_annotated(m, <<relu_node, conv_node>>) THEN Ok(m)
            ELSE LET iq == conv_input_qspec_map(g, conv_node, quantization_config) IN
            IF iq.err # "none" THEN Raise(m, iq.err)
            ELSE LET m1 == [m EXCEPT
                        ![conv_node] = QuantizationAnnotation(iq.map, NoneSpec, FALSE, TRUE)]
                 IN Ok([m1 EXCEPT
                        ![relu_node] = QuantizationAnnotation(EmptyMap,
                                                get_act_qspec(quantization_config), FALSE, TRUE)])
    IN IF fused.err # "none" THEN Raise(m0, fused.err)
       ELSE ForEach(fused.fused_partitions, step, 1, m0)

QNNPack_annotate_conv2d(g, quantization_config, m0) ==
    LET conv_partitions == chain_values(get_source_partitions(g, {"nn.Conv2d", "F.conv2d"}))
        step(conv_partition, m) ==
            IF Len(conv_partition.output_nodes) > 1 THEN Raise(m, "ValueError")
            ELSE IF Len(conv_partition.output_nodes) = 0 THEN Raise(m, "IndexError")
            ELSE LET conv_node == conv_partition.output_nodes[1] IN
            IF ~IsAtenConv(g, conv_node) THEN Raise(m, "ValueError")
            ELSE IF _is_annotated(m, <<conv_node>>) THEN Ok(m)
            ELSE LET iq == conv_input_qspec_map(g, conv_node, quantization_config) IN
            IF iq.err # "none" THEN Raise(m, iq.err)
            ELSE Ok([m EXCEPT ![conv_node] = QuantizationAnnotation(iq.map,
                                    get_act_qspec(quantization_config), FALSE, TRUE)])
    IN ForEach(conv_partitions, step, 1, m0)

\* the last entry of a sequence of nodes that satisfies P, the first one,
\* NonNode (None) when there is none
LastWhere(nodes, P(_)) ==
    LET I == {i \in 1..Len(nodes) : P(nodes[i])} IN
    IF I = {} THEN NonNode ELSE nodes[CHOOSE i \in I : \A j \in I : j <= i]

FirstWhere(nodes, P(_)) ==
    LET I == {i \in 1..Len(nodes) : P(nodes[i])} IN
    IF I = {} THEN NonNode ELSE nodes[Min(I)]

\* _annotate_linear looking for the weight only after the activation is written
annotate_linear_weight_test_late(g, quantization_config, m0) ==
    LET module_partitions == get_source_partitions(g, {"nn.Linear", "F.linear"})
        act_qspec == get_act_qspec(quantization_config)
        weight_qspec == get_weight_qspec(quantization_config)
        bias_qspec == get_bias_qspec(quantization_config)
        isLinear(e) == e.type = "nn.Linear"
        linear_partitions == chain_values(SelectIdx(module_partitions, isLinear, 1))
        step(p, m) ==
            IF Len(p.input_nodes) = 0 \/ Len(p.output_nodes) = 0 THEN Raise(m, "IndexError")
            ELSE LET act_node == p.input_nodes[1]
                     output_node == p.output_nodes[1]
                     rank2(n) == g[n].ndim = 2
                     rank1(n) == g[n].ndim = 1
                     weight_node == LastWhere(p.params, rank2)
                     bias_node == LastWhere(p.params, rank1)
                     usesAct(n) == n \in Users(g, act_node)
                     act_use_node == FirstWhere(p.nodes, usesAct)
                 IN
            IF ~IsNode(act_use_node) THEN Raise(m, "ValueError")
            ELSE LET m1 == IF ~_is_annotated(m, <<act_use_node>>)
                           THEN _annotate_input_qspec_map(m, act_use_node, act_node, act_qspec)
                           ELSE m
                     m2 == IF IsNode(bias_node) /\ ~_is_annotated(m1, <<bias_node>>)
                           THEN _annotate_output_qspec(m1, bias_node, bias_qspec)
                           ELSE m1
                     m3 == IF IsNode(weight_node) /\ ~_is_annotated(m2, <<weight_node>>)
                           THEN _annotate_output_qspec(m2, weight_node, weight_qspec)
                           ELSE m2
                     m4 == IF ~_is_annotated(m3, <<output_node>>)
                           THEN _annotate_output_qspec(m3, output_node, act_qspec)
                           ELSE m3
                 IN IF ~IsNode(weight_node) THEN Raise(m1, "ValueError")
                    ELSE Ok(_mark_nodes_as_annotated(m4, p.nodes))
    IN ForEach(linear_partitions, step, 1, m0)

\* _annotate_linear taking the first parameter as weight, the second as bias
annotate_linear_params_by_position(g, quantization_config, m0) ==
    LET module_partitions == get_source_partitions(g, {"nn.Linear", "F.linear"})
        act_qspec == get_act_qspec(quantization_config)
        weight_qspec == get_weight_qspec(quantization_config)
        bias_qspec == get_bias_qspec(quantization_config)
        isLinear(e) == e.type = "nn.Linear"
        linear_partitions == chain_values(SelectIdx(module_partitions, isLinear, 1))
        step(p, m) ==
            IF Len(p.input_nodes) = 0 \/ Len(p.output_nodes) = 0 THEN Raise(m, "IndexError")
            ELSE LET act_node == p.input_nodes[1]
                     output_node == p.output_nodes[1]
                     weight_node == IF Len(p.params) >= 1 THEN p.params[1] ELSE NonNode
                     bias_node == IF Len(p.params) >= 2 THEN p.params[2] ELSE NonNode
                     usesAct(n) == n \in Users(g, act_node)
                     act_use_node == FirstWhere(p.nodes, usesAct)
                 IN
            IF ~IsNode(weight_node) THEN Raise(m, "ValueError")
            ELSE IF ~IsNode(act_use_node) THEN Raise(m, "ValueError")
            ELSE LET m1 == IF ~_is_annotated(m, <<act_use_node>>)
                           THEN _annotate_input_qspec_map(m, act_use_node, act_node, act_qspec)
                           ELSE m
                     m2 == IF IsNode(bias_node) /\ ~_is_annotated(m1, <<bias_node>>)
                           THEN _annotate_output_qspec(m1, bias_node, bias_qspec)
                           ELSE m1
                     m3 == IF ~_is_annotated(m2, <<weight_node>>)
                           THEN _annotate_output_qspec(m2, weight_node, weight_qspec)
                           ELSE m2
                     m4 == IF ~_is_annotated(m3, <<output_node>>)
                           THEN _annotate_output_qspec(m3, output_node, act_qspec)
                           ELSE m3
                 IN Ok(_mark_nodes_as_annotated(m4, p.nodes))
    IN ForEach(linear_partitions, step, 1, m0)

QNNPack_annotate_linear(g, quantization_config, m0) ==
    LET module_partitions == get_source_partitions(g, {"nn.Linear", "F.linear"})
        act_qspec == get_act_qspec(quantization_config)
        weight_qspec == get_weight_qspec(quantization_config)
        bias_qspec == get_bias_qspec(quantization_config)
        isLinear(e) == e.type = "nn.Linear"
        linear_partitions == chain_values(SelectIdx(module_partitions, isLinear, 1))
        step(p, m) ==
            IF Len(p.input_nodes) = 0 \/ Len(p.output_nodes) = 0 THEN Raise(m, "IndexError")
            ELSE LET act_node == p.input_nodes[1]
                     output_node == p.output_nodes[1]
                     rank2(n) == g[n].ndim = 2
                     rank1(n) == g[n].ndim = 1
                     weight_node == LastWhere(p.params, rank2)
                     bias_node == LastWhere(p.params, rank1)
                     usesAct(n) == n \in Users(g, act_node)
                     act_use_node == FirstWhere(p.nodes, usesAct)
                 IN
            IF ~IsNode(weight_node) THEN Raise(m, "ValueError")
            ELSE IF ~IsNode(act_use_node) THEN Raise(m, "ValueError")
            ELSE LET m1 == IF ~_is_annotated(m, <<act_use_node>>)
                           THEN _annotate_input_qspec_map(m, act_use_node, act_node, act_qspec)
                           ELSE m
                     m2 == IF IsNode(bias_node) /\ ~_is_annotated(m1, <<bias_node>>)
                           THEN _annotate_output_qspec(m1, bias_node, bias_qspec)
                           ELSE m1
                     m3 == IF ~_is_annotated(m2, <<weight_node>>)
                           THEN _annotate_output_qspec(m2, weight_node, weight_qspec)
                           ELSE m2
                     m4 == IF ~_is_annotated(m3, <<output_node>>)
                           THEN _annotate_output_qspec(m3, output_node, act_qspec)
                           ELSE m3
                 IN Ok(_mark_nodes_as_annotated(m4, p.nodes))
    IN ForEach(linear_partitions, step, 1, m0)

\* _annotate_maxpool2d leaving _input_output_share_observers unset
annotate_maxpool2d_without_sharing(g, quantization_config, m0) ==
    LET maxpool_partitions == chain_values(get_source_partitions(g, {"nn.MaxPool2d", "F.max_pool2d"}))
        step(maxpool_partition, m) ==
            IF Len(maxpool_partition.output_nodes) = 0 THEN Raise(m, "IndexError")
            ELSE LET output_node == maxpool_partition.output_nodes[1]
                     isPool(n) == g[n].target = "aten.max_pool2d_with_indices.default"
                     maxpool_node == LastWhere(maxpool_partition.nodes, isPool)
                 IN
            \* _is_annotated reads maxpool_node.meta unless output_node already decided it
            IF _is_annotated(m, <<output_node>>) THEN Ok(m)
            ELSE IF ~IsNode(maxpool_node) THEN Raise(m, "AttributeError")
            ELSE IF _is_annotated(m, <<maxpool_node>>) THEN Ok(m)
            ELSE IF Len(g[maxpool_node].args) = 0 THEN Raise(m, "IndexError")
            ELSE LET input_act == g[maxpool_node].args[1]
                     act_qspec == get_act_qspec(quantization_config)
                 IN
            IF ~IsNode(input_act) THEN Raise(m, "AssertionError")
            ELSE LET m1 == [m EXCEPT ![maxpool_node] =
                                QuantizationAnnotation(MapSet(EmptyMap, input_act, act_qspec),
                                                       NoneSpec, FALSE, TRUE)]
                 IN Ok([m1 EXCEPT ![output_node] =
                                QuantizationAnnotation(EmptyMap, act_qspec, FALSE, TRUE)])
    IN ForEach(maxpool_partitions, step, 1, m0)

QNNPack_annotate_maxpool2d(g, quantization_config, m0) ==
    LET maxpool_partitions == chain_values(get_source_partitions(g, {"nn.MaxPool2d", "F.max_pool2d"}))
        step(maxpool_partition, m) ==
            IF Len(maxpool_partition.output_nodes) = 0 THEN Raise(m, "IndexError")
            ELSE LET output_node == maxpool_partition.output_nodes[1]
                     isPool(n) == g[n].target = "aten.max_pool2d_with_indices.default"
                     maxpool_node == LastWhere(maxpool_partition.nodes, isPool)
                 IN
            \* _is_annotated reads maxpool_node.meta unless output_node already decided it
            IF _is_annotated(m, <<output_node>>) THEN Ok(m)
            ELSE IF ~IsNode(maxpool_node) THEN Raise(m, "AttributeError")
            ELSE IF _is_annotated(m, <<maxpool_node>>) THEN Ok(m)
            ELSE IF Len(g[maxpool_node].args) = 0 THEN Raise(m, "IndexError")
            ELSE LET input_act == g[maxpool_node].args[1]
                     act_qspec == get_act_qspec(quantization_config)
                 IN
            IF ~IsNode(input_act) THEN Raise(m, "AssertionError")
            ELSE LET m1 == [m EXCEPT ![maxpool_node] =
                                QuantizationAnnotation(MapSet(EmptyMap, input_act, act_qspec),
                                                       NoneSpec, FALSE, TRUE)]
                 IN Ok([m1 EXCEPT ![output_node] =
                                QuantizationAnnotation(EmptyMap, act_qspec, TRUE, TRUE)])
    IN ForEach(maxpool_partitions, step, 1, m0)

QNNPack_annotate_input_out_obs_sharing_op(op, g, quantization_config, m0) ==
    LET partitions == chain_values(get_source_partitions(g, {op}))
        step(partition, m) ==
            IF Len(partition.output_nodes) = 0 THEN Raise(m, "IndexError")
            ELSE LET io_obs_sharing_node == partition.output_nodes[1] IN
            IF _is_annotated(m, <<io_obs_sharing_node>>) THEN Ok(m)
            ELSE IF Len(g[io_obs_sharing_node].args) = 0 THEN Raise(m, "IndexError")
            ELSE LET input_act == g[io_obs_sharing_node].args[1]
                     act_qspec == get_act_qspec(quantization_config)
                 IN
            IF ~IsNode(input_act) THEN Raise(m, "AssertionError")
            ELSE Ok([m EXCEPT ![io_obs_sharing_node] =
                        QuantizationAnnotation(MapSet(EmptyMap, input_act, act_qspec),
                                               act_qspec, TRUE, TRUE)])
    IN ForEach(partitions, step, 1, m0)

QNNPack_annotate_hardtanh(g, quantization_config, m0) ==
    QNNPack_annotate_input_out_obs_sharing_op("nn.Hardtanh", g, quantization_config, m0)

QNNPack_annotate_mean(g, quantization_config, m0) ==
    QNNPack_annotate_input_out_obs_sharing_op("torch.mean", g, quantization_config, m0)

QNNPack_annotate_adaptive_avg_pool2d(g, quantization_config, m0) ==
    QNNPack_annotate_input_out_obs_sharing_op("nn.AdaptiveAvgPool2d", g, quantization_config, m0)

\* the add node's input_qspec_map: each operand that is a Node gets act_qspec
add_input_qspec_map(g, add_node, act_qspec) ==
    LET args == g[add_node].args
        m1 == IF IsNode(args[1]) THEN MapSet(EmptyMap, args[1], act_qspec) ELSE EmptyMap
    IN IF IsNode(args[2]) THEN MapSet(m1, args[2], act_qspec) ELSE m1

QNNPack_annotate_add_relu(g, quantization_config, m0) ==
    LET fused == find_sequential_partitions(g, <<"torch.add", "nn.ReLU">>, _EQUIVALET_TYPES_DICT)
        step(fused_partition, m) ==
            LET add_partition == fused_partition[1]
                relu_partition == fused_partition[2]
            IN
            IF Len(relu_partition.output_nodes) > 1 THEN Raise(m, "ValueError")
            ELSE IF Len(relu_partition.output_nodes) = 0 THEN Raise(m, "IndexError")
            ELSE LET relu_node == relu_partition.output_nodes[1] IN
            IF Len(add_partition.output_nodes) > 1 THEN Raise(m, "ValueError")
            ELSE IF Len(add_partition.output_nodes) = 0 THEN Raise(m, "IndexError")
            ELSE LET add_node == add_partition.output_nodes[1] IN
            IF _is_annotated(m, <<relu_node, add_node>>) THEN Ok(m)
            ELSE IF Len(g[add_node].args) < 2 THEN Raise(m, "IndexError")
            ELSE LET act_qspec == get_act_qspec(quantization_config)
                     m1 == [m EXCEPT ![add_node] =
                                QuantizationAnnotation(add_input_qspec_map(g, add_node, act_qspec),
                                                       NoneSpec, FALSE, TRUE)]
                 IN Ok([m1 EXCEPT ![relu_node] =
                                QuantizationAnnotation(EmptyMap, act_qspec, FALSE, TRUE)])
    IN IF fused.err # "none" THEN Raise(m0, fused.err)
       ELSE ForEach(fused.fused_partitions, step, 1, m0)

QNNPack_annotate_add(g, quantization_config, m0) ==
    LET add_partitions == chain_values(get_source_partitions(g, {"operator.add", "torch.add"}))
        step(add_partition, m) ==
            IF Len(add_partition.output_nodes) = 0 THEN Raise(m, "IndexError")
            ELSE LET add_node == add_partition.output_nodes[1] IN
            IF _is_annotated(m, <<add_node>>) THEN Ok(m)
            ELSE IF Len(g[add_node].args) < 2 THEN Raise(m, "IndexError")
            ELSE LET act_qspec == get_act_qspec(quantization_config) IN
                 Ok([m EXCEPT ![add_node] =
                        QuantizationAnnotation(add_input_qspec_map(g, add_node, act_qspec),
                                               act_qspec, FALSE, TRUE)])
    IN ForEach(add_partitions, step, 1, m0)

(***************************************************************************)
(* x86_inductor_quantizer.py: the pattern annotators of                    *)
(* X86InductorQuantizer.                                                   *)
(***************************************************************************)
\* which operand of the add is the conv node: [err, conv_node_idx], idx 0 or
\* 1 as in the source, 2 standing for None
\* conv_operand_index without the elif branch: only the first operand is tried
conv_operand_index_first_only(g, binary_node, conv_node) ==
    LET args == g[binary_node].args IN
    IF Len(args) < 1 THEN [err |-> "IndexError", idx |-> 2]
    ELSE IF ~IsNode(args[1]) THEN [err |-> "AttributeError", idx |-> 2]
    ELSE IF g[args[1]].op = "call_function" /\ args[1] = conv_node
         THEN [err |-> "none", idx |-> 0]
    ELSE [err |-> "none", idx |-> 2]

conv_operand_index(g, binary_node, conv_node) ==
    LET args == g[binary_node].args IN
    IF Len(args) < 1 THEN [err |-> "IndexError", idx |-> 2]
    ELSE IF ~IsNode(args[1]) THEN [err |-> "AttributeError", idx |-> 2]
    ELSE IF g[args[1]].op = "call_function" /\ args[1] = conv_node
         THEN [err |-> "none", idx |-> 0]
    ELSE IF Len(args) < 2 THEN [err |-> "IndexError", idx |-> 2]
    ELSE IF ~IsNode(args[2]) THEN [err |-> "AttributeError", idx |-> 2]
    ELSE IF g[args[2]].op = "call_function" /\ args[2] = conv_node
         THEN [err |-> "none", idx |-> 1]
    ELSE [err |-> "none", idx |-> 2]

X86_annotate_conv2d_binary_unary(g, quantization_config, m0) ==
    LET fused == find_sequential_partitions(g, <<"nn.Conv2d", "operator.add", "nn.ReLU">>,
                                            _EQUIVALET_TYPES_DICT)
        step(fused_partition, m) ==
            LET conv_partition == fused_partition[1]
                add_partition == fused_partition[2]
                relu_partition == fused_partition[3]
            IN
            IF Len(relu_partition.output_nodes) > 1 THEN Raise(m, "ValueError")
            ELSE IF Len(relu_partition.output_nodes) = 0 THEN Raise(m, "IndexError")
            ELSE LET unary_node == relu_partition.output_nodes[1] IN
            IF Len(add_partition.output_nodes) > 1 THEN Raise(m, "ValueError")
            ELSE IF Len(add_partition.output_nodes) = 0 THEN Raise(m, "IndexError")
            ELSE LET binary_node == add_partition.output_nodes[1] IN
            IF Len(conv_partition.output_nodes) > 1 THEN Raise(m, "ValueError")
            ELSE IF Len(conv_partition.output_nodes) = 0 THEN Raise(m, "IndexError")
            ELSE LET conv_node == conv_partition.output_nodes[1]
                     ci == conv_operand_index(g, binary_node, conv_node)
                 IN
            IF ci.err # "none" THEN Raise(m, ci.err)
            ELSE IF ci.idx = 2 THEN Ok(m)
            \* binary_node.args[extra_input_node_idx] on an add of one operand
            ELSE IF Len(g[binary_node].args) < (1 - ci.idx) + 1 THEN Raise(m, "IndexError")
            ELSE LET extra_input_node == g[binary_node].args[(1 - ci.idx) + 1] IN
            IF ~IsNode(extra_input_node) THEN Raise(m, "AssertionError")
            ELSE IF ~IsAtenConv(g, conv_node) THEN Ok(m)
            ELSE IF _is_annotated(m, <<unary_node, binary_node, conv_node>>) THEN Ok(m)
            ELSE LET iq == conv_input_qspec_map(g, conv_node, quantization_config) IN
            IF iq.err # "none" THEN Raise(m, iq.err)
            ELSE LET act == get_act_qspec(quantization_config)
                     m1 == [m EXCEPT ![conv_node] =
                                QuantizationAnnotation(iq.map, NoneSpec, FALSE, TRUE)]
                     m2 == [m1 EXCEPT ![binary_node] =
                                QuantizationAnnotation(MapSet(EmptyMap, extra_input_node, act),
                                                       NoneSpec, FALSE, TRUE)]
                 IN Ok([m2 EXCEPT ![unary_node] =
                                QuantizationAnnotation(EmptyMap, act, FALSE, TRUE)])
    IN IF fused.err # "none" THEN Raise(m0, fused.err)
       ELSE ForEach(fused.fused_partitions, step, 1, m0)

X86_annotate_conv2d_binary(g, quantization_config, m0) ==
    LET fused == find_sequential_partitions(g, <<"nn.Conv2d", "operator.add">>, _EQUIVALET_TYPES_DICT)
        step(fused_partition, m) ==
            LET conv_partition == fused_partition[1]
                add_partition == fused_partition[2]
            IN
            IF Len(add_partition.output_nodes) > 1 THEN Raise(m, "ValueError")
            ELSE IF Len(add_partition.output_nodes) = 0 THEN Raise(m, "IndexError")
            ELSE LET binary_node == add_partition.output_nodes[1] IN
            IF Len(conv_partition.output_nodes) > 1 THEN Raise(m, "ValueError")
            ELSE IF Len(conv_partition.output_nodes) = 0 THEN Raise(m, "IndexError")
            ELSE LET conv_node == conv_partition.output_nodes[1]
                     ci == conv_operand_index(g, binary_node, conv_node)
                 IN
            IF ci.err # "none" THEN Raise(m, ci.err)
            ELSE IF ci.idx = 2 THEN Ok(m)
            \* binary_node.args[extra_input_node_idx] on an add of one operand
            ELSE IF Len(g[binary_node].args) < (1 - ci.idx) + 1 THEN Raise(m, "IndexError")
            \* extra_input_node is not asserted to be a Node here
            ELSE LET extra_input_node == g[binary_node].args[(1 - ci.idx) + 1] IN
            IF ~IsAtenConv(g, conv_node) THEN Ok(m)
            ELSE IF _is_annotated(m, <<binary_node, conv_node>>) THEN Ok(m)
            ELSE LET iq == conv_input_qspec_map(g, conv_node, quantization_config) IN
            IF iq.err # "none" THEN Raise(m, iq.err)
            ELSE LET act == get_act_qspec(quantization_config)
                     m1 == [m EXCEPT ![conv_node] =
                                QuantizationAnnotation(iq.map, NoneSpec, FALSE, TRUE)]
                 IN Ok([m1 EXCEPT ![binary_node] =
                                QuantizationAnnotation(MapSet(EmptyMap, extra_input_node, act),
                                                       act, FALSE, TRUE)])
    IN IF fused.err # "none" THEN Raise(m0, fused.err)
       ELSE ForEach(fused.fused_partitions, step, 1, m0)

X86_annotate_conv2d_unary(g, quantization_config, m0) ==
    LET fused == find_sequential_partitions(g, <<"nn.Conv2d", "nn.ReLU">>, _EQUIVALET_TYPES_DICT)
        step(fused_partition, m) ==
            LET conv_partition == fused_partition[1]
                relu_partition == fused_partition[2]
            IN
            IF Len(relu_partition.output_nodes) > 1 THEN Raise(m, "ValueError")
            ELSE IF Len(relu_partition.output_nodes) = 0 THEN Raise(m, "IndexError")
            ELSE LET unary_node == relu_partition.output_nodes[1] IN
            IF Len(conv_partition.output_nodes) > 1 THEN Raise(m, "ValueError")
            ELSE IF Len(conv_partition.output_nodes) = 0 THEN Raise(m, "IndexError")
            ELSE IF Len(g[unary_node].args) = 0 THEN Raise(m, "IndexError")
            \* conv_node is re-read from the relu's first argument
            ELSE LET conv_node == g[unary_node].args[1] IN
            IF ~IsNode(conv_node) THEN Raise(m, "AssertionError")
            ELSE IF ~IsAtenConv(g, conv_node) THEN Ok(m)
            ELSE IF _is_annotated(m, <<unary_node, conv_node>>) THEN Ok(m)
            ELSE LET iq == conv_input_qspec_map(g, conv_node, quantization_config) IN
            IF iq.err # "none" THEN Raise(m, iq.err)
            ELSE LET m1 == [m EXCEPT ![conv_node] =
                                QuantizationAnnotation(iq.map, NoneSpec, FALSE, TRUE)]
                 IN Ok([m1 EXCEPT ![unary_node] =
                                QuantizationAnnotation(EmptyMap,
                                    get_act_qspec(quantization_config), FALSE, TRUE)])
    IN IF fused.err # "none" THEN Raise(m0, fused.err)
       ELSE ForEach(fused.fused_partitions, step, 1, m0)

\* _annotate_conv2d leaving the conv node without an output_qspec, as the
\* fused annotators do
x86_conv2d_without_output(g, quantization_config, m0) ==
    LET conv_partitions == chain_values(get_source_partitions(g, {"nn.Conv2d", "F.conv2d"}))
        step(conv_partition, m) ==
            IF Len(conv_partition.output_nodes) > 1 THEN Raise(m, "ValueError")
            ELSE IF Len(conv_partition.output_nodes) = 0 THEN Raise(m, "IndexError")
            ELSE LET conv_node == conv_partition.output_nodes[1] IN
            IF ~IsAtenConv(g, conv_node) THEN Raise(m, "ValueError")
            ELSE IF _is_annotated(m, <<conv_node>>) THEN Ok(m)
            ELSE LET iq == conv_input_qspec_map(g, conv_node, quantization_config) IN
            IF iq.err # "none" THEN Raise(m, iq.err)
            ELSE Ok([m EXCEPT ![conv_node] = QuantizationAnnotation(iq.map, NoneSpec,
                                                                    FALSE, TRUE)])
    IN ForEach(conv_partitions, step, 1, m0)

X86_annotate_conv2d(g, quantization_config, m0) ==
    LET conv_partitions == chain_values(get_source_partitions(g, {"nn.Conv2d", "F.conv2d"}))
        step(conv_partition, m) ==
            IF Len(conv_partition.output_nodes) > 1 THEN Raise(m, "ValueError")
            ELSE IF Len(conv_partition.output_nodes) = 0 THEN Raise(m, "IndexError")
            ELSE LET conv_node == conv_partition.output_nodes[1] IN
            IF ~IsAtenConv(g, conv_node) THEN Raise(m, "ValueError")
            ELSE IF _is_annotated(m, <<conv_node>>) THEN Ok(m)
            ELSE LET iq == conv_input_qspec_map(g, conv_node, quantization_config) IN
            IF iq.err # "none" THEN Raise(m, iq.err)
            ELSE Ok([m EXCEPT ![conv_node] = QuantizationAnnotation(iq.map,
                                    get_act_qspec(quantization_config), FALSE, TRUE)])
    IN ForEach(conv_partitions, step, 1, m0)

(***************************************************************************)
(* The traced graphs of the model: placeholders x (1), w (2), b (3), then  *)
(* up to MaxOps operator instances, each lowered to its aten nodes and     *)
(* taking its inputs among x and the results of the earlier instances,     *)
(* then the output node, which takes every result nobody else uses.        *)
(***************************************************************************)
Placeholder == Node("placeholder", "placeholder", <<>>, 0, "none", 0)

GetAttr(p, t, ndim) == Node("get_attr", "get_attr", <<>>, p, t, ndim)

Call(target, args, p, t) == Node("call_function", target, args, p, t, 0)

\* a graph under construction: its nodes, the values an instance may take
\* as input, and the number of instances so far
Builder0 == [nodes |-> <<Placeholder, Placeholder, Placeholder>>, vals |-> {1}, k |-> 0]

Push(bd, new) ==
    [nodes |-> bd.nodes \o new, vals |-> bd.vals \cup {Len(bd.nodes) + Len(new)}, k |-> bd.k + 1]

ConvBlocks(bd) ==
    LET n == Len(bd.nodes)
        p == bd.k + 1
    IN UNION {
        { Push(bd, <<GetAttr(p, "nn.Conv2d", 4), GetAttr(p, "nn.Conv2d", 1),
                     Call("aten.convolution.default", <<in, n + 1, n + 2>>, p, "nn.Conv2d")>>),
          Push(bd, <<Call("aten.convolution.default", <<in, 2, NonNode>>, p, "F.conv2d")>>) }
        : in \in bd.vals }

BnBlocks(bd) ==
    LET n == Len(bd.nodes)
        p == bd.k + 1
    IN { Push(bd, <<Call("aten._native_batch_norm_legit.default", <<in>>, p, "nn.BatchNorm2d"),
                    Call("getitem", <<n + 1, NonNode>>, p, "nn.BatchNorm2d")>>)
         : in \in bd.vals }

\* a ReLU instance of one aten.relu call, or of two in a row: the second is
\* then the instance's output node and reads the first, not the instance's
\* input
ReluBlocks(bd) ==
    LET n == Len(bd.nodes)
        p == bd.k + 1
    IN UNION {
        { Push(bd, <<Call("aten.relu.default", <<in>>, p, "nn.ReLU")>>),
          Push(bd, <<Call("aten.relu.default", <<in>>, p, "nn.ReLU"),
                     Call("aten.relu.default", <<n + 1>>, p, "nn.ReLU")>>) }
        : in \in bd.vals }

AddBlocks(bd) ==
    { Push(bd, <<Call("aten.add.Tensor", <<ab[1], ab[2]>>, bd.k + 1, "operator.add")>>)
      : ab \in ((bd.vals \cup {NonNode}) \X (bd.vals \cup {NonNode})) \ {<<NonNode, NonNode>>} }

LinearBlocks(bd) ==
    LET n == Len(bd.nodes)
        p == bd.k + 1
    IN UNION {
        { Push(bd, <<GetAttr(p, "nn.Linear", 2), GetAttr(p, "nn.Linear", 1),
                     Call("aten.t.default", <<n + 1>>, p, "nn.Linear"),
                     Call("aten.addmm.default", <<n + 2, in, n + 3>>, p, "nn.Linear")>>),
          Push(bd, <<GetAttr(p, "nn.Linear", 2),
                     Call("aten.t.default", <<n + 1>>, p, "nn.Linear"),
                     Call("aten.mm.default", <<in, n + 2>>, p, "nn.Linear")>>) }
        : in \in bd.vals }

MaxpoolBlocks(bd) ==
    LET n == Len(bd.nodes)
        p == bd.k + 1
    IN { Push(bd, <<Call("aten.max_pool2d_with_indices.default", <<in>>, p, "nn.MaxPool2d"),
                    Call("getitem", <<n + 1, NonNode>>, p, "nn.MaxPool2d")>>)
         : in \in bd.vals }

SharingBlocks(bd) ==
    UNION {
        { Push(bd, <<Call("aten.hardtanh.default", <<in, NonNode, NonNode>>, bd.k + 1, "nn.Hardtanh")>>),
          Push(bd, <<Call("aten.mean.dim", <<in, NonNode>>, bd.k + 1, "torch.mean")>>),
          Push(bd, <<Call("aten._adaptive_avg_pool2d.default", <<in, NonNode>>, bd.k + 1,
                          "nn.AdaptiveAvgPool2d")>>) }
        : in \in bd.vals }

\* the instances a graph may hold: the overlapping patterns (conv, relu,
\* add, and batchnorm for QNNPack), or with wide every pattern QNNPack knows
Blocks(bk, wide, bd) ==
    ConvBlocks(bd) \cup ReluBlocks(bd) \cup AddBlocks(bd) \cup
    (IF bk = "qnnpack" THEN BnBlocks(bd) ELSE {}) \cup
    (IF wide THEN LinearBlocks(bd) \cup MaxpoolBlocks(bd) \cup SharingBlocks(bd) ELSE {})

RECURSIVE Builders(_, _, _)
Builders(bk, wide, k) ==
    IF k = 0 THEN {Builder0}
    ELSE LET prev == Builders(bk, wide, k - 1) IN
         prev \cup UNION {Blocks(bk, wide, bd) : bd \in {b \in prev : b.k = k - 1}}

\* a second node of the last instance that is used outside it: the
\* partition of that instance then has two output nodes
Fork(bd) ==
    LET n == Len(bd.nodes) IN
    [nodes |-> bd.nodes \o <<Call("aten.clone.default", <<n>>, bd.nodes[n].src, bd.nodes[n].styp)>>,
     vals  |-> bd.vals \cup {n + 1},
     k     |-> bd.k]

\* a conv instance whose output node is not the convolution itself: an
\* operator of one argument, or one of three
ConvTailBlocks(bd) ==
    LET n == Len(bd.nodes)
        p == bd.k + 1
        conv(in) == Call("aten.convolution.default", <<in, 2, NonNode>>, p, "F.conv2d")
    IN UNION {
        { Push(bd, <<conv(in), Call("aten.clone.default", <<n + 1>>, p, "F.conv2d")>>),
          Push(bd, <<conv(in), Call("aten.where.self", <<n + 1, n + 1, 2>>, p, "F.conv2d")>>) }
        : in \in bd.vals }

\* a node outside every instance that also uses the last instance's output
Tap(bd) ==
    [bd EXCEPT !.nodes = bd.nodes \o <<Call("aten.clone.default", <<Len(bd.nodes)>>, 0, "none")>>]

\* Linear instances with the bias parameter ahead of the weight, and with
\* the weight held outside the instance
LinearVariants(bd) ==
    LET n == Len(bd.nodes)
        p == bd.k + 1
    IN UNION {
        { Push(bd, <<GetAttr(p, "nn.Linear", 1), GetAttr(p, "nn.Linear", 2),
                     Call("aten.t.default", <<n + 2>>, p, "nn.Linear"),
                     Call("aten.addmm.default", <<n + 1, in, n + 3>>, p, "nn.Linear")>>),
          Push(bd, <<Call("aten.t.default", <<2>>, p, "nn.Linear"),
                     Call("aten.mm.default", <<in, n + 1>>, p, "nn.Linear")>>) }
        : in \in bd.vals }

\* an add instance of two nodes, torch.add(a, b, alpha=s) traced as a
\* multiplication feeding the addition: the addition is the output node and
\* its other operand is a value or a number
ScaledAddBlocks(bd) ==
    LET n == Len(bd.nodes)
        p == bd.k + 1
        mul(in) == Call("aten.mul.Tensor", <<in, NonNode>>, p, "operator.add")
    IN UNION {
        { Push(bd, <<mul(in), Call("aten.add.Tensor", <<n + 1, o>>, p, "operator.add")>>),
          Push(bd, <<mul(in), Call("aten.add.Tensor", <<o, n + 1>>, p, "operator.add")>>) }
        : in \in bd.vals, o \in bd.vals \cup {NonNode} }

\* torch.nn.functional.linear instances: weight and bias as parameters of
\* the instance, and the weight taken from a graph input
FunctionalLinearBlocks(bd) ==
    LET n == Len(bd.nodes)
        p == bd.k + 1
    IN UNION {
        { Push(bd, <<GetAttr(p, "F.linear", 2), GetAttr(p, "F.linear", 1),
                     Call("aten.t.default", <<n + 1>>, p, "F.linear"),
                     Call("aten.addmm.default", <<n + 2, in, n + 3>>, p, "F.linear")>>),
          Push(bd, <<Call("aten.t.default", <<2>>, p, "F.linear"),
                     Call("aten.mm.default", <<in, n + 1>>, p, "F.linear")>>) }
        : in \in bd.vals }

\* a ReLU instance lowered to another operator than aten.relu
LoweredReluBlocks(bd) ==
    { Push(bd, <<Call("aten.clamp_min.default", <<in, NonNode>>, bd.k + 1, "nn.ReLU")>>)
      : in \in bd.vals }

\* the output node takes every value nothing outside its instance uses, and
\* every unused node that belongs to no instance
Finish(bd) ==
    LET g == bd.nodes
        outside(v) == {u \in Users(g, v) : g[u].src = 0 \/ g[u].src # g[v].src}
        unused == {v \in bd.vals : outside(v) = {}} \cup
                  {v \in NodeIds(g) : g[v].op = "call_function" /\ g[v].src = 0 /\ Users(g, v) = {}}
    IN g \o <<Node("output", "output", SortedSeq(unused), 0, "none", 0)>>

Then(S, Grow(_)) == UNION {Grow(b) : b \in S}

\* graphs that break the annotators' assumptions, alone or next to one more
\* instance: an instance with two output nodes, a conv instance ending in
\* another operator, a conv used outside the chain it heads, for QNNPack
\* the Linear variants and the functional linear calls, for x86 a conv
\* feeding an add instance of two nodes, and a conv next to a ReLU instance
\* that is not an aten.relu call
IrregularBuilders(bk) ==
    LET wide == (bk = "qnnpack")
        more(b) == Blocks(bk, wide, b)
        one == {b \in Builders(bk, wide, 1) : b.k = 1}
        tails == ConvTailBlocks(Builder0)
        taps == {Tap(b) : b \in ConvBlocks(Builder0)}
        first == {Fork(b) : b \in one} \cup tails \cup
                 (IF wide THEN LinearVariants(Builder0) \cup FunctionalLinearBlocks(Builder0)
                  ELSE {})
        last == {Fork(b) : b \in Then(one, more)}
        chains == IF wide THEN Then(Then(tails \cup taps, BnBlocks), ReluBlocks) ELSE {}
        scaled == IF wide THEN {} ELSE Then(ConvBlocks(Builder0), ScaledAddBlocks)
        lowered == Then(ConvBlocks(Builder0), LoweredReluBlocks)
    IN first \cup last \cup Then(first, more) \cup Then(taps, more) \cup chains \cup
       scaled \cup Then(scaled, ReluBlocks) \cup lowered

\* a residual block next to a second branch: y = conv1(x), relu(y + x), and
\* y + conv2(x) with its operands in either order
ResidualBuilders ==
    LET conv(bd) == Push(bd, <<Call("aten.convolution.default", <<1, 2, NonNode>>,
                                    bd.k + 1, "F.conv2d")>>)
        add(bd, a, b) == Push(bd, <<Call("aten.add.Tensor", <<a, b>>, bd.k + 1, "operator.add")>>)
        relu(bd, a) == Push(bd, <<Call("aten.relu.default", <<a>>, bd.k + 1, "nn.ReLU")>>)
        branch == conv(relu(add(conv(Builder0), 4, 1), 5))
    IN {add(branch, 4, 7), add(branch, 7, 4)}

\* up to MaxOps instances of the overlapping patterns; for QNNPack also up
\* to MaxWideOps instances of any pattern; the irregular graphs; and for
\* x86 the residual blocks
Graphs(bk) ==
    {Finish(bd) : bd \in Builders(bk, FALSE, MaxOps) \cup
                         (IF bk = "qnnpack" THEN Builders(bk, TRUE, MaxWideOps) ELSE {}) \cup
                         IrregularBuilders(bk) \cup
                         (IF bk = "x86" THEN ResidualBuilders ELSE {})}

(***************************************************************************)
(* The quantizers as a state machine.                                      *)
(***************************************************************************)
Backends == {"qnnpack", "x86"}

\* x86_inductor_quantizer._QUANT_CONFIG_TO_ANNOTATOR after module import
X86_QUANT_CONFIG_TO_ANNOTATOR == {"x86_default"}

\* the configurations tried on each quantizer: for QNNPack the static and the
\* QAT symmetric one, for x86 its default and one with no registered annotator
Configs(bk) ==
    IF bk = "qnnpack" THEN {"symmetric", "symmetric_qat"} ELSE {"x86_default", "symmetric"}

\* no find_sequential_partitions call made: the default registry, built at import
NoFsp == [eq |-> _EQUIVALENT_TYPES, dict |-> _EQUIVALET_TYPES_DICT, op |-> "none",
          types |-> <<>>, err |-> "none", queries |-> 0, out |-> <<>>, matching |-> {}]

(***************************************************************************)
(* Class-level state: the annotator registry and the operator catalog.     *)
(***************************************************************************)
\* the four configurations get_symmetric_quantization_config can build
SymmetricConfigs == <<"symmetric", "symmetric_qat", "symmetric_per_channel",
                      "symmetric_per_channel_qat">>

\* functools.partial(fn, config=quantization_config)
partial(fn, quantization_config) == [fn |-> fn, config |-> quantization_config]

EmptyRegistry == [c \in {} |-> partial("none", "None")]

\* _QUANT_CONFIG_TO_ANNOTATOR after module import: x86 decorates its
\* annotate_symmetric_config with register_annotator, QNNPack's decorator is
\* commented out
ImportedRegistry(bk) ==
    IF bk = "x86"
    THEN [c \in X86_QUANT_CONFIG_TO_ANNOTATOR |-> partial("annotate_symmetric_config", c)]
    ELSE EmptyRegistry

\* the loop of register_annotator's decorator from its i-th config on: the
\* configs before a registered one are stored before the KeyError
RECURSIVE RegisterFrom(_, _, _, _)
RegisterFrom(registry, quantization_configs, fn, i) ==
    IF i > Len(quantization_configs) THEN [registry |-> registry, err |-> "none"]
    ELSE LET quantization_config == quantization_configs[i] IN
         IF quantization_config \in DOMAIN registry
         THEN [registry |-> registry, err |-> "KeyError"]
         ELSE RegisterFrom([c \in DOMAIN registry \cup {quantization_config} |->
                               IF c = quantization_config THEN partial(fn, c) ELSE registry[c]],
                           quantization_configs, fn, i + 1)

\* register_annotator without the membership test: a registered config is
\* given the new annotator
register_replacing(registry, quantization_configs, fn) ==
    [registry |-> [c \in DOMAIN registry \cup Range(quantization_configs) |->
                      IF c \in Range(quantization_configs) THEN partial(fn, c) ELSE registry[c]],
     err |-> "none"]

\* register_annotator(quantization_configs)(fn): [registry, err]
register(registry, quantization_configs, fn) ==
    RegisterFrom(registry, quantization_configs, fn, 1)

\* supported_symmetric_quantized_operators().items(), in insertion order
supported_symmetric_quantized_operators ==
    << [op_string |-> "conv2d",
        pattern_list |-> << <<"nn.Conv2d", "nn.ReLU">>, <<"nn.Conv2d", "F.relu">>,
                            <<"F.conv2d", "nn.ReLU">>, <<"F.conv2d", "F.relu">> >>],
       [op_string |-> "linear", pattern_list |-> << <<"nn.Linear">>, <<"F.linear">> >>],
       [op_string |-> "add", pattern_list |-> << <<"torch.add">> >>],
       [op_string |-> "maxpool2d", pattern_list |-> << <<"nn.MaxPool2d">>, <<"F.max_pool2d">> >>],
       [op_string |-> "hardtanh", pattern_list |-> << <<"nn.Hardtanh">>, <<"F.hardtanh">> >>],
       [op_string |-> "mean", pattern_list |-> << <<"torch.mean">> >>],
       [op_string |-> "adaptive_avgpool2d",
        pattern_list |-> << <<"nn.AdaptiveAvgPool2d">>, <<"F.adaptive_avg_pool2d">> >>] >>

\* x86's supported_quantized_operators().items()
supported_quantized_operators ==
    << [op_string |-> "conv2d",
        pattern_list |->
            << <<"nn.Conv2d">>, <<"F.conv2d">>,
               <<"nn.Conv2d", "nn.ReLU">>, <<"nn.Conv2d", "F.relu">>,
               <<"F.conv2d", "nn.ReLU">>, <<"F.conv2d", "F.relu">>,
               <<"nn.Conv2d", "torch.add">>, <<"nn.Conv2d", "operator.add">>,
               <<"F.conv2d", "torch.add">>, <<"F.conv2d", "operator.add">>,
               <<"nn.Conv2d", "torch.add", "nn.ReLU">>, <<"nn.Conv2d", "torch.add", "F.relu">>,
               <<"nn.Conv2d", "operator.add", "nn.ReLU">>, <<"nn.Conv2d", "operator.add", "F.relu">>,
               <<"F.conv2d", "torch.add", "nn.ReLU">>, <<"F.conv2d", "torch.add", "F.relu">>,
               <<"F.conv2d", "operator.add", "nn.ReLU">>,
               <<"F.conv2d", "operator.add", "F.relu">> >>] >>

OperatorConfig(config, operators) == [config |-> config, operators |-> operators]

\* for quantization_config in configs: for op_string, pattern_list in
\* ops.items(): append(OperatorConfig(quantization_config, pattern_list))
config_and_operators(configs, ops) ==
    Flatten([i \in 1..Len(configs) |->
                [j \in 1..Len(ops) |-> OperatorConfig(configs[i], ops[j].pattern_list)]])

get_supported_symmetric_config_and_operators ==
    config_and_operators(SymmetricConfigs, supported_symmetric_quantized_operators)

get_supported_x86_inductor_config_and_operators ==
    config_and_operators(<<"x86_default">>, supported_quantized_operators)

\* the class attribute supported_config_and_operators
supported_config_and_operators(bk) ==
    IF bk = "qnnpack" THEN get_supported_symmetric_config_and_operators
    ELSE get_supported_x86_inductor_config_and_operators

\* set(spec for spec, _ in cls.supported_config_and_operators)
get_supported_quantization_configs(bk) ==
    {e.config : e \in Range(supported_config_and_operators(bk))}

\* None: the patterns of every entry; else the patterns of the first entry
\* of the config; else the empty list
get_supported_operator_for_quantization_config(bk, quantization_config) ==
    LET entries == supported_config_and_operators(bk) IN
    IF quantization_config = "None"
    THEN Flatten([k \in 1..Len(entries) |-> entries[k].operators])
    ELSE LET hits == {k \in 1..Len(entries) : entries[k].config = quantization_config} IN
         IF hits = {} THEN <<>> ELSE entries[Min(hits)].operators

\* no registry or catalog call made
NoCall == [op |-> "none", configs |-> <<>>, fn |-> "none", err |-> "none",
           before |-> EmptyRegistry, ops |-> <<>>, supported |-> {}]

(***************************************************************************)
(* wrap.py: TagActivationCheckpoint.  node.meta["recompute"] is "absent"   *)
(* when the key is missing, else the value stored under it.                *)
(***************************************************************************)
\* no node of the graph carries a recompute tag
Untagged ==
    /\ recompute = [n \in NodeIds(graph) |-> "absent"]
    /\ ckpt = [op |-> "none", kwargs |-> {}, err |-> "none", ret |-> "none"]

\* tag_nodes tagging every node that is not a graph input
tag_nodes_all_but_placeholders(g, tags) ==
    [n \in DOMAIN tags |-> IF g[n].op # "placeholder" THEN "True" ELSE tags[n]]

\* TagActivationCheckpoint.tag_nodes: the loop over gmod.graph.nodes
tag_nodes(g, tags) ==
    [n \in DOMAIN tags |-> IF g[n].op = "call_function" THEN "True" ELSE tags[n]]

\* Quantizer.__init__ on an imported module
Constructed ==
    /\ operator_type_config = [t \in {} |-> "None"]
    /\ _QUANT_CONFIG_TO_ANNOTATOR = ImportedRegistry(backend)
    /\ call = NoCall

Init ==
    /\ backend \in Backends
    /\ graph \in Graphs(backend)
    /\ global_config = "None"
    /\ meta = [n \in NodeIds(graph) |-> NoAnn]
    /\ pc = "idle"
    /\ nset = 0
    /\ log = <<>>
    /\ fsp = NoFsp
    /\ Constructed
    /\ Untagged

\* the configuration of the running (or last) annotate call
CallConfig == log[Len(log)].cfg

\* the call ends with result how in the annotator pc names
Ended(how) == [log EXCEPT ![Len(log)].result = how, ![Len(log)].at = pc]

set_global(quantization_config) ==
    /\ pc = "idle"
    /\ nset < MaxSetGlobal
    /\ global_config' = quantization_config
    /\ nset' = nset + 1
    /\ UNCHANGED <<graph, backend, meta, pc, log, fsp,
                 operator_type_config, _QUANT_CONFIG_TO_ANNOTATOR, call, recompute, ckpt>>

\* the functions a caller may hand to register_annotator: the two
\* annotate_symmetric_config of the repository, a method of the quantizer
\* that takes no config keyword, and two functions of the caller's own, one
\* that returns at once and one that runs self._annotate_conv2d only
AnnotatorFns == {"annotate_symmetric_config", "QNNPackQuantizer.annotate_symmetric_config",
                 "_annotate_conv2d", "annotate_nothing", "annotate_conv2d_only"}

\* fn(self, model, config=...) on an X86InductorQuantizer, up to its first
\* annotator: [err, first], first the position of the annotator it starts
\* with or "return" when it calls none. QNNPackQuantizer's function asks
\* self for _annotate_linear, which X86InductorQuantizer has not;
\* _annotate_conv2d has no parameter named config
AnnotatorEntry(fn) ==
    CASE fn = "annotate_symmetric_config" ->
             [err |-> "none", first |-> "x86.conv2d_binary_unary"]
      [] fn = "annotate_conv2d_only" -> [err |-> "none", first |-> "x86.conv2d"]
      [] fn = "annotate_nothing" -> [err |-> "none", first |-> "return"]
      [] fn = "QNNPackQuantizer.annotate_symmetric_config" ->
             [err |-> "AttributeError", first |-> "return"]
      [] fn = "_annotate_conv2d" -> [err |-> "TypeError", first |-> "return"]

\* _QUANT_CONFIG_TO_ANNOTATOR[config](self, model): the lookup raises KeyError
\* on a config without annotator, else the partial calls its function with
\* the config it was built with
CallAnnotator(registry, config) ==
    IF config \notin DOMAIN registry
    THEN [err |-> "KeyError", first |-> "return", config |-> config]
    ELSE LET entered == AnnotatorEntry(registry[config].fn) IN
         [err |-> entered.err, first |-> entered.first, config |-> registry[config].config]

\* X86InductorQuantizer.annotate after the lookup and the entry into the
\* function found: the position reached and the log with the call's record
Entered(called, entry) ==
    LET e == [entry EXCEPT !.cfg = called.config] IN
    IF called.err # "none"
    THEN [pc |-> "idle", log |-> Append(log, [e EXCEPT !.result = called.err])]
    ELSE IF called.first = "return"
    THEN [pc |-> "idle", log |-> Append(log, [e EXCEPT !.result = "returned"])]
    ELSE [pc |-> called.first, log |-> Append(log, e)]

\* annotate taking the configuration set for the conv2d operator type, when
\* there is one, in place of the global one
annotate_with_operator_config ==
    /\ pc = "idle"
    /\ Len(log) < MaxCalls
    /\ LET config == IF "conv2d" \in DOMAIN operator_type_config
                     THEN operator_type_config["conv2d"] ELSE global_config
           entry == [cfg |-> config, before |-> meta, result |-> "running", at |-> "annotate"] IN
       IF backend = "qnnpack"
       THEN /\ pc' = "qnnpack.linear"
            /\ log' = Append(log, entry)
       ELSE LET e == Entered(CallAnnotator(_QUANT_CONFIG_TO_ANNOTATOR, config), entry) IN
            /\ pc' = e.pc
            /\ log' = e.log
    /\ UNCHANGED <<graph, backend, global_config, meta, nset, fsp,
                 operator_type_config, _QUANT_CONFIG_TO_ANNOTATOR, call, recompute, ckpt>>

\* annotate dropping the annotations the graph came with before the first
\* annotator runs
annotate_clearing_annotations ==
    /\ pc = "idle"
    /\ Len(log) < MaxCalls
    /\ LET entry == [cfg |-> global_config, before |-> meta, result |-> "running",
                     at |-> "annotate"] IN
       IF backend = "qnnpack"
       THEN /\ pc' = "qnnpack.linear"
            /\ log' = Append(log, entry)
       ELSE LET e == Entered(CallAnnotator(_QUANT_CONFIG_TO_ANNOTATOR, global_config), entry) IN
            /\ pc' = e.pc
            /\ log' = e.log
    /\ meta' = [n \in NodeIds(graph) |-> NoAnn]
    /\ UNCHANGED <<graph, backend, global_config, nset, fsp,
                 operator_type_config, _QUANT_CONFIG_TO_ANNOTATOR, call, recompute, ckpt>>

\* annotate calling annotate_symmetric_config with the global configuration
\* without looking it up in the registry, on both quantizers
annotate_without_lookup ==
    /\ pc = "idle"
    /\ Len(log) < MaxCalls
    /\ LET entry == [cfg |-> global_config, before |-> meta, result |-> "running",
                     at |-> "annotate"] IN
       /\ pc' = IF backend = "qnnpack" THEN "qnnpack.linear" ELSE "x86.conv2d_binary_unary"
       /\ log' = Append(log, entry)
    /\ UNCHANGED <<graph, backend, global_config, meta, nset, fsp,
                 operator_type_config, _QUANT_CONFIG_TO_ANNOTATOR, call, recompute, ckpt>>

\* annotate, up to the first annotator: QNNPackQuantizer goes straight to
\* annotate_symmetric_config, X86InductorQuantizer calls the function the
\* registry holds for its global_config
annotate ==
    /\ pc = "idle"
    /\ Len(log) < MaxCalls
    /\ LET entry == [cfg |-> global_config, before |-> meta, result |-> "running",
                     at |-> "annotate"] IN
       IF backend = "qnnpack"
       THEN /\ pc' = "qnnpack.linear"
            /\ log' = Append(log, entry)
       ELSE LET e == Entered(CallAnnotator(_QUANT_CONFIG_TO_ANNOTATOR, global_config), entry) IN
            /\ pc' = e.pc
            /\ log' = e.log
    /\ UNCHANGED <<graph, backend, global_config, meta, nset, fsp,
                 operator_type_config, _QUANT_CONFIG_TO_ANNOTATOR, call, recompute, ckpt>>

\* an annotator whose exception is swallowed: the next annotator runs
pass_swallowing_error(at, r, next) ==
    /\ pc = at
    /\ meta' = r.meta
    /\ IF next = "return"
       THEN pc' = "idle" /\ log' = Ended("returned")
       ELSE pc' = next /\ log' = log
    /\ UNCHANGED <<graph, backend, global_config, nset, fsp,
                 operator_type_config, _QUANT_CONFIG_TO_ANNOTATOR, call, recompute, ckpt>>

\* an annotator that forgets the per-operator configurations when the call
\* returns
pass_clearing_operator_configs(at, r, next) ==
    /\ pc = at
    /\ meta' = r.meta
    /\ IF r.err # "none"
       THEN pc' = "idle" /\ log' = Ended(r.err)
       ELSE IF next = "return"
       THEN pc' = "idle" /\ log' = Ended("returned")
       ELSE pc' = next /\ log' = log
    /\ operator_type_config' = IF pc' = "idle" THEN [t \in {} |-> "None"]
                               ELSE operator_type_config
    /\ UNCHANGED <<graph, backend, global_config, nset, fsp,
                   _QUANT_CONFIG_TO_ANNOTATOR, call, recompute, ckpt>>

\* an annotator whose raise takes back what the call has written so far
pass_rolling_back(at, r, next) ==
    /\ pc = at
    /\ meta' = IF r.err # "none" THEN log[Len(log)].before ELSE r.meta
    /\ IF r.err # "none"
       THEN pc' = "idle" /\ log' = Ended(r.err)
       ELSE IF next = "return"
       THEN pc' = "idle" /\ log' = Ended("returned")
       ELSE pc' = next /\ log' = log
    /\ UNCHANGED <<graph, backend, global_config, nset, fsp,
                 operator_type_config, _QUANT_CONFIG_TO_ANNOTATOR, call, recompute, ckpt>>

\* one annotator of annotate_symmetric_config: a raise ends the call, the
\* last annotator returns from it
Pass(at, r, next) ==
    /\ pc = at
    /\ meta' = r.meta
    /\ IF r.err # "none"
       THEN pc' = "idle" /\ log' = Ended(r.err)
       ELSE IF next = "return"
       THEN pc' = "idle" /\ log' = Ended("returned")
       ELSE pc' = next /\ log' = log
    /\ UNCHANGED <<graph, backend, global_config, nset, fsp,
                 operator_type_config, _QUANT_CONFIG_TO_ANNOTATOR, call, recompute, ckpt>>

\* the linear annotator followed by the batchnorm annotators whatever is_qat
annotate_linear_ungated ==
    /\ pc = "qnnpack.linear"
    /\ LET r == QNNPack_annotate_linear(graph, CallConfig, meta) IN
       IF r.err = "none" /\ CallConfig = "None"
       THEN Pass("qnnpack.linear", Raise(r.meta, "AttributeError"), "return")
       ELSE Pass("qnnpack.linear", r, "qnnpack.conv2d_bn_relu")

\* QNNPackQuantizer.annotate_symmetric_config, annotator by annotator
annotate_linear ==
    /\ pc = "qnnpack.linear"
    /\ LET r == QNNPack_annotate_linear(graph, CallConfig, meta) IN
       \* config.is_qat is read next: None has no such attribute
       IF r.err = "none" /\ CallConfig = "None"
       THEN Pass("qnnpack.linear", Raise(r.meta, "AttributeError"), "return")
       ELSE Pass("qnnpack.linear", r,
                 IF CallConfig # "None" /\ ConfigOf(CallConfig).is_qat
                 THEN "qnnpack.conv2d_bn_relu" ELSE "qnnpack.conv2d_relu")

annotate_conv2d_bn_relu ==
    Pass("qnnpack.conv2d_bn_relu", QNNPack_annotate_conv2d_bn_relu(graph, CallConfig, meta),
         "qnnpack.conv2d_bn")

annotate_conv2d_bn ==
    Pass("qnnpack.conv2d_bn", QNNPack_annotate_conv2d_bn(graph, CallConfig, meta),
         "qnnpack.conv2d_relu")

annotate_conv2d_relu ==
    Pass("qnnpack.conv2d_relu", QNNPack_annotate_conv2d_relu(graph, CallConfig, meta),
         "qnnpack.conv2d")

annotate_conv2d ==
    Pass("qnnpack.conv2d", QNNPack_annotate_conv2d(graph, CallConfig, meta), "qnnpack.maxpool2d")

annotate_maxpool2d ==
    Pass("qnnpack.maxpool2d", QNNPack_annotate_maxpool2d(graph, CallConfig, meta),
         "qnnpack.add_relu")

annotate_add_relu ==
    Pass("qnnpack.add_relu", QNNPack_annotate_add_relu(graph, CallConfig, meta), "qnnpack.add")

annotate_add ==
    Pass("qnnpack.add", QNNPack_annotate_add(graph, CallConfig, meta), "qnnpack.hardtanh")

annotate_hardtanh ==
    Pass("qnnpack.hardtanh", QNNPack_annotate_hardtanh(graph, CallConfig, meta), "qnnpack.mean")

annotate_mean ==
    Pass("qnnpack.mean", QNNPack_annotate_mean(graph, CallConfig, meta),
         "qnnpack.adaptive_avg_pool2d")

annotate_adaptive_avg_pool2d ==
    Pass("qnnpack.adaptive_avg_pool2d",
         QNNPack_annotate_adaptive_avg_pool2d(graph, CallConfig, meta), "return")

\* annotate_symmetric_config with the plain conv annotator called first
annotate_plain_conv2d_first ==
    Pass("x86.conv2d_binary_unary", X86_annotate_conv2d(graph, CallConfig, meta),
         "x86.conv2d_binary")

\* X86InductorQuantizer.annotate_symmetric_config, annotator by annotator
annotate_conv2d_binary_unary ==
    Pass("x86.conv2d_binary_unary", X86_annotate_conv2d_binary_unary(graph, CallConfig, meta),
         "x86.conv2d_binary")

annotate_conv2d_binary ==
    Pass("x86.conv2d_binary", X86_annotate_conv2d_binary(graph, CallConfig, meta),
         "x86.conv2d_unary")

annotate_conv2d_unary ==
    Pass("x86.conv2d_unary", X86_annotate_conv2d_unary(graph, CallConfig, meta), "x86.conv2d")

annotate_x86_conv2d ==
    Pass("x86.conv2d", X86_annotate_conv2d(graph, CallConfig, meta), "return")

Next ==
    \/ \E c \in Configs(backend) : set_global(c)
    \/ annotate
    \/ annotate_linear
    \/ annotate_conv2d_bn_relu
    \/ annotate_conv2d_bn
    \/ annotate_conv2d_relu
    \/ annotate_conv2d
    \/ annotate_maxpool2d
    \/ annotate_add_relu
    \/ annotate_add
    \/ annotate_hardtanh
    \/ annotate_mean
    \/ annotate_adaptive_avg_pool2d
    \/ annotate_conv2d_binary_unary
    \/ annotate_conv2d_binary
    \/ annotate_conv2d_unary
    \/ annotate_x86_conv2d

Spec == Init /\ [][Next]_vars

(***************************************************************************)
(* graph_utils.py driven on its own: find_sequential_partitions over the   *)
(* graphs of the model with the default registry (SpecF), and the registry *)
(* built from custom equivalence lists, its lookup and the finder on top   *)
(* of it (SpecE).                                                          *)
(***************************************************************************)
FinderTypes == {"nn.Conv2d", "F.conv2d", "nn.ReLU", "operator.add"}

TypeSeqs == UNION {[1..k -> FinderTypes] : k \in 1..MaxSeq}

EqSets == {S \in SUBSET FinderTypes : Cardinality(S) >= 2}

EqLists == UNION {[1..k -> EqSets] : k \in 0..MaxEqSets}

\* two convs and two adds that each take both convs: every pair of a conv
\* and an add is connected
CrossedGraphs ==
    LET convs == Then(ConvBlocks(Builder0), ConvBlocks)
        cross(bd) == LET cs == SortedSeq(bd.vals \ {1}) IN
                     [bd EXCEPT !.vals = {cs[1], cs[2]}]
        adds(bd) == {b \in AddBlocks(bd) : Range(b.nodes[Len(b.nodes)].args) = bd.vals}
        both(bd) == {[b EXCEPT !.vals = bd.vals] : b \in adds(bd)}
    IN {Finish([b EXCEPT !.vals = {Len(b.nodes) - 1, Len(b.nodes)}]) :
            b \in Then(Then({cross(bd) : bd \in convs}, both), adds)}

InitF ==
    /\ backend = "x86"
    /\ graph \in Graphs("x86") \cup CrossedGraphs
    /\ global_config = "None"
    /\ meta = [n \in NodeIds(graph) |-> NoAnn]
    /\ pc = "idle"
    /\ nset = 0
    /\ log = <<>>
    /\ fsp = NoFsp
    /\ Constructed
    /\ Untagged

InitE ==
    /\ backend = "x86"
    /\ graph \in {Finish(bd) : bd \in Builders("x86", FALSE, MaxCustomOps)}
    /\ global_config = "None"
    /\ meta = [n \in NodeIds(graph) |-> NoAnn]
    /\ pc = "idle"
    /\ nset = 0
    /\ log = <<>>
    /\ \E eq \in EqLists \cup {_EQUIVALENT_TYPES} : fsp = [NoFsp EXCEPT !.eq = eq, !.dict = EmptyDict, !.op = "new"]
    /\ Constructed
    /\ Untagged

\* _create_equivalent_types_dict(equivalent_types) on the custom list
create_equivalent_types_dict ==
    /\ fsp.op = "new"
    /\ fsp' = [fsp EXCEPT !.dict = _create_equivalent_types_dict(fsp.eq), !.op = "created"]
    /\ UNCHANGED <<graph, backend, global_config, meta, pc, nset, log,
                 operator_type_config, _QUANT_CONFIG_TO_ANNOTATOR, call, recompute, ckpt>>

\* _get_matching_types(partition_type, equivalet_types_dict)
get_matching_types(partition_type) ==
    /\ fsp.op = "created"
    /\ fsp' = [fsp EXCEPT !.op = "matched", !.types = <<partition_type>>,
                          !.matching = _get_matching_types(partition_type, fsp.dict)]
    /\ UNCHANGED <<graph, backend, global_config, meta, pc, nset, log,
                 operator_type_config, _QUANT_CONFIG_TO_ANNOTATOR, call, recompute, ckpt>>

\* find_sequential_partitions(gm, partition_types, equivalet_types_dict=...)
find(partition_types) ==
    /\ fsp.op \in {"none", "created"}
    /\ LET r == find_sequential_partitions(graph, partition_types, fsp.dict) IN
       fsp' = [fsp EXCEPT !.op = "found", !.types = partition_types, !.err = r.err,
                          !.queries = r.queries, !.out = r.fused_partitions]
    /\ UNCHANGED <<graph, backend, global_config, meta, pc, nset, log,
                 operator_type_config, _QUANT_CONFIG_TO_ANNOTATOR, call, recompute, ckpt>>

NextF == \E ts \in TypeSeqs : find(ts)

NextE ==
    \/ create_equivalent_types_dict
    \/ \E t \in FinderTypes : get_matching_types(t)
    \/ \E ts \in TypeSeqs : find(ts)

SpecF == InitF /\ [][NextF]_vars

SpecE == InitE /\ [][NextE]_vars

(***************************************************************************)
(* annotate on a graph the caller hands over with annotations on it: up to *)
(* MaxPre nodes of the instances already carry an annotation marked        *)
(* _annotated.  The QNNPack graphs include Linear modules lowered without  *)
(* a rank-2 weight attribute, alone and after a regular Linear module.     *)
(***************************************************************************)
PreGraphs(bk) ==
    LET wide == (bk = "qnnpack")
        mid(b) == IF wide THEN BnBlocks(b) ELSE AddBlocks(b)
        odd == IF wide
               THEN LinearVariants(Builder0) \cup Then(LinearBlocks(Builder0), LinearVariants)
               ELSE {}
    IN {Finish(bd) : bd \in Builders(bk, wide, MaxPreOps) \cup odd \cup
                            Then(Then(ConvBlocks(Builder0), mid), ReluBlocks)}

PreAnnotated == QuantizationAnnotation(EmptyMap, NoneSpec, FALSE, TRUE)

InitP ==
    /\ backend \in Backends
    /\ graph \in PreGraphs(backend)
    /\ global_config = "None"
    /\ \E pre \in {S \in SUBSET {n \in NodeIds(graph) : graph[n].src # 0} : Cardinality(S) <= MaxPre} :
          meta = [n \in NodeIds(graph) |-> IF n \in pre THEN PreAnnotated ELSE NoAnn]
    /\ pc = "idle"
    /\ nset = 0
    /\ log = <<>>
    /\ fsp = NoFsp
    /\ Constructed
    /\ Untagged

SpecP == InitP /\ [][Next]_vars

(***************************************************************************)
(* Per-operator-type configurations: set_config_for_operator_type between  *)
(* the annotate calls.                                                     *)
(***************************************************************************)
OperatorTypes == {"conv2d", "linear"}

\* self.operator_type_config[operator_type] = quantization_config
set_config_for_operator_type(operator_type, quantization_config) ==
    /\ pc = "idle"
    /\ Cardinality(DOMAIN operator_type_config) < MaxOperatorTypes
    /\ operator_type_config' =
           [t \in DOMAIN operator_type_config \cup {operator_type} |->
               IF t = operator_type THEN quantization_config ELSE operator_type_config[t]]
    /\ UNCHANGED <<graph, backend, global_config, meta, pc, nset, log, fsp,
                   _QUANT_CONFIG_TO_ANNOTATOR, call, recompute, ckpt>>

InitO ==
    /\ backend \in Backends
    /\ graph \in PreGraphs(backend)
    /\ global_config = "None"
    /\ meta = [n \in NodeIds(graph) |-> NoAnn]
    /\ pc = "idle"
    /\ nset = 0
    /\ log = <<>>
    /\ fsp = NoFsp
    /\ Constructed
    /\ Untagged

NextO ==
    \/ Next
    \/ \E t \in OperatorTypes, c \in Configs(backend) : set_config_for_operator_type(t, c)

SpecO == InitO /\ [][NextO]_vars

(***************************************************************************)
(* The annotator registry and the catalog queries of a quantizer class.    *)
(***************************************************************************)
ConfigLists == UNION {[1..k -> ConfigNames] : k \in 0..MaxRegister}

\* the functions the two modules decorate with register_annotator
ModuleAnnotators == {"annotate_symmetric_config",
                     "QNNPackQuantizer.annotate_symmetric_config"}

\* the configurations asked of the catalog: its own, one of the other
\* backend, and None
QueryConfigs == Range(SymmetricConfigs) \cup {"x86_default", "None"}

\* @register_annotator(quantization_configs) applied to fn
register_annotator(quantization_configs, fn) ==
    /\ pc = "idle"
    /\ LET r == register(_QUANT_CONFIG_TO_ANNOTATOR, quantization_configs, fn) IN
       /\ _QUANT_CONFIG_TO_ANNOTATOR' = r.registry
       /\ call' = [NoCall EXCEPT !.op = "register_annotator", !.configs = quantization_configs,
                                 !.fn = fn, !.err = r.err,
                                 !.before = _QUANT_CONFIG_TO_ANNOTATOR]
    /\ UNCHANGED <<graph, backend, global_config, meta, pc, nset, log, fsp,
                   operator_type_config, recompute, ckpt>>

\* cls.get_supported_operator_for_quantization_config(quantization_config)
get_supported_operators(quantization_config) ==
    /\ pc = "idle"
    /\ call' = [NoCall EXCEPT !.op = "get_supported_operator_for_quantization_config",
                              !.configs = <<quantization_config>>,
                              !.before = _QUANT_CONFIG_TO_ANNOTATOR,
                              !.ops = get_supported_operator_for_quantization_config(
                                          backend, quantization_config)]
    /\ UNCHANGED <<graph, backend, global_config, meta, pc, nset, log, fsp,
                   operator_type_config, _QUANT_CONFIG_TO_ANNOTATOR, recompute, ckpt>>

\* cls.get_supported_quantization_configs()
get_supported_configs ==
    /\ pc = "idle"
    /\ call' = [NoCall EXCEPT !.op = "get_supported_quantization_configs",
                              !.before = _QUANT_CONFIG_TO_ANNOTATOR,
                              !.supported = get_supported_quantization_configs(backend)]
    /\ UNCHANGED <<graph, backend, global_config, meta, pc, nset, log, fsp,
                   operator_type_config, _QUANT_CONFIG_TO_ANNOTATOR, recompute, ckpt>>

InitK ==
    /\ backend \in Backends
    /\ graph = Finish(Builder0)
    /\ global_config = "None"
    /\ meta = [n \in NodeIds(graph) |-> NoAnn]
    /\ pc = "idle"
    /\ nset = 0
    /\ log = <<>>
    /\ fsp = NoFsp
    /\ Constructed
    /\ Untagged

NextK ==
    \/ \E cs \in ConfigLists, fn \in ModuleAnnotators : register_annotator(cs, fn)
    \/ \E c \in QueryConfigs : get_supported_operators(c)
    \/ get_supported_configs

SpecK == InitK /\ [][NextK]_vars

(***************************************************************************)
(* X86InductorQuantizer.annotate on a registry that callers have extended: *)
(* register_annotator calls between the set_global and annotate calls.     *)
(***************************************************************************)
InitR ==
    /\ InitP
    /\ backend = "x86"

NextR ==
    \/ \E c \in Configs("x86") : set_global(c)
    \/ \E fn \in AnnotatorFns : register_annotator(<<"symmetric">>, fn)
    \/ annotate
    \/ annotate_conv2d_binary_unary
    \/ annotate_conv2d_binary
    \/ annotate_conv2d_unary
    \/ annotate_x86_conv2d

SpecR == InitR /\ [][NextR]_vars

(***************************************************************************)
(* TagActivationCheckpoint on a graph module: tag_nodes called on its own, *)
(* and the operator called with keyword arguments.                         *)
(***************************************************************************)
\* nodes that come with a recompute tag set by an earlier pass
MaxPreTagged == 1

\* keyword arguments a caller may pass on to torch.utils.checkpoint
KwargNames == {"context_fn", "preserve_rng_state"}

\* the graph modules handed to the operator: operator calls, and also one
\* call traced as a submodule call or as a method call
TagGraphs ==
    LET gs == PreGraphs("x86")
        calls(g) == {n \in NodeIds(g) : g[n].op = "call_function"}
    IN gs \cup UNION {{[g EXCEPT ![n].op = o] : n \in calls(g),
                                                o \in {"call_module", "call_method"}}
                      : g \in gs}

\* tag_activation_checkpoint.tag_nodes(gmod)
TagNodes ==
    /\ pc = "idle"
    /\ recompute' = tag_nodes(graph, recompute)
    /\ ckpt' = [op |-> "tag_nodes", kwargs |-> {}, err |-> "none", ret |-> "gmod"]
    /\ UNCHANGED <<graph, backend, global_config, meta, pc, nset, log, fsp,
                   operator_type_config, _QUANT_CONFIG_TO_ANNOTATOR, call>>

\* tag_activation_checkpoint(gmod, *args, **kwargs): the test for context_fn,
\* then tag_nodes, then Interpreter(gmod).run(*args), which returns or raises
TagActivationCheckpoint(kwargs) ==
    /\ pc = "idle"
    /\ IF "context_fn" \in kwargs
       THEN /\ recompute' = recompute
            /\ ckpt' = [op |-> "__call__", kwargs |-> kwargs, err |-> "RuntimeError",
                        ret |-> "none"]
       ELSE /\ recompute' = tag_nodes(graph, recompute)
            /\ \E ran \in BOOLEAN :
                  ckpt' = [op |-> "__call__", kwargs |-> kwargs,
                           err |-> IF ran THEN "none" ELSE "Interpreter.run",
                           ret |-> IF ran THEN "Interpreter.run" ELSE "none"]
    /\ UNCHANGED <<graph, backend, global_config, meta, pc, nset, log, fsp,
                   operator_type_config, _QUANT_CONFIG_TO_ANNOTATOR, call>>

InitT ==
    /\ backend = "x86"
    /\ graph \in TagGraphs
    /\ global_config = "None"
    /\ meta = [n \in NodeIds(graph) |-> NoAnn]
    /\ pc = "idle"
    /\ nset = 0
    /\ log = <<>>
    /\ fsp = NoFsp
    /\ Constructed
    /\ \E pre \in {S \in SUBSET NodeIds(graph) : Cardinality(S) <= MaxPreTagged} :
          \E v \in {"True", "False"} :
              recompute = [n \in NodeIds(graph) |-> IF n \in pre THEN v ELSE "absent"]
    /\ ckpt = [op |-> "none", kwargs |-> {}, err |-> "none", ret |-> "none"]

NextT ==
    \/ TagNodes
    \/ \E kwargs \in SUBSET KwargNames : TagActivationCheckpoint(kwargs)

SpecT == InitT /\ [][NextT]_vars

(***************************************************************************)
(* Properties.                                                             *)
(***************************************************************************)
Annotated(m, n) == m[n].present /\ m[n]._annotated

FirstPasses == {"qnnpack.linear", "x86.conv2d_binary_unary"}

Returned(i) == i <= Len(log) /\ log[i].result = "returned"

ConvNodes(g) == {n \in NodeIds(g) : IsAtenConv(g, n)}

\* C1: within one annotate call, a node whose annotation has _annotated set
\* when an annotator's pass ends keeps its whole annotation through every
\* later pass of that call
C1_NonOverlap ==
    [][(pc # "idle" /\ pc \notin FirstPasses) =>
            \A n \in NodeIds(graph) : Annotated(meta, n) => meta'[n] = meta[n]]_vars

\* a later pass is about to run over a conv node an earlier pass of the same
\* call has annotated
C1_Witness ==
    /\ pc \in {"qnnpack.conv2d", "x86.conv2d"}
    /\ \E n \in ConvNodes(graph) : Annotated(meta, n)

\* C2: when annotate has returned twice on the graph with the same global
\* config, the annotations after the second call are those the first left
C2_Idempotent ==
    (pc = "idle" /\ Len(log) = 2 /\ Returned(1) /\ Returned(2) /\ log[1].cfg = log[2].cfg)
        => meta = log[2].before

C2_Witness ==
    /\ pc = "idle" /\ Len(log) = 2 /\ Returned(1) /\ Returned(2) /\ log[1].cfg = log[2].cfg
    /\ \E n \in NodeIds(graph) : Annotated(meta, n) /\ meta[n].output_qspec # NoneSpec
    /\ \E n \in NodeIds(graph) : graph[n].target = "aten.mm.default"

\* the equivalence class the registry fsp.dict returns for a type
ClassOf(t) == _get_matching_types(t, fsp.dict)

Intersecting(types) ==
    \E i, j \in 1..Len(types) : i < j /\ ClassOf(types[i]) \cap ClassOf(types[j]) # {}

\* C6: find_sequential_partitions raises ValueError whenever two entries of
\* the type sequence have intersecting equivalence classes (the same type
\* twice included), whatever the graph, and has queried no partition then
C6_ValidationError ==
    (fsp.op = "found" /\ Intersecting(fsp.types))
        => (fsp.err = "ValueError" /\ fsp.queries = 0)

\* two different types of one class were asked for on a graph that holds
\* partitions of both
C6_Witness ==
    /\ fsp.op = "found" /\ fsp.err = "ValueError"
    /\ Len(fsp.types) = 2 /\ fsp.types[1] # fsp.types[2]
    /\ \A k \in 1..2 : \E n \in NodeIds(graph) : graph[n].styp = fsp.types[k]

\* the per-entry partition lists of a type sequence and their cross product
PartitionLists(types) ==
    [k \in 1..Len(types) |-> chain_values(get_source_partitions(graph, ClassOf(types[k])))]

CrossProduct(lists) ==
    {c \in [1..Len(lists) -> UNION {Range(lists[k]) : k \in 1..Len(lists)}] :
        \A k \in 1..Len(lists) : c[k] \in Range(lists[k])}

AllConnected(c) ==
    \A i \in 1..(Len(c) - 1) : check_subgraphs_connected(graph, c[i], c[i + 1])

\* C7: for a valid type sequence the result holds exactly the tuples of the
\* cross product of the per-entry partition lists whose consecutive pairs are
\* all connected, each once
C7_ExactlyConnected ==
    (fsp.op = "found" /\ fsp.err = "none") =>
        /\ Range(fsp.out) = {c \in CrossProduct(PartitionLists(fsp.types)) : AllConnected(c)}
        /\ \A i, j \in 1..Len(fsp.out) : fsp.out[i] = fsp.out[j] => i = j

\* some tuple of the cross product is returned and another one is rejected
C7_Witness ==
    /\ fsp.op = "found" /\ fsp.err = "none" /\ Len(fsp.types) >= 2
    /\ fsp.out # <<>>
    /\ \E c \in CrossProduct(PartitionLists(fsp.types)) : ~AllConnected(c)

Registered(t) == \E i \in 1..Len(fsp.eq) : t \in fsp.eq[i]

RegisteredClass(t) ==
    fsp.eq[CHOOSE i \in 1..Len(fsp.eq) :
              t \in fsp.eq[i] /\ \A j \in (i + 1)..Len(fsp.eq) : t \notin fsp.eq[j]]

\* C8: _get_matching_types returns, read as a set, the registered class of
\* the operator together with the operator when it is registered, and the
\* operator alone when it is not
C8_MatchingTypes ==
    fsp.op = "matched" =>
        fsp.matching = (IF Registered(fsp.types[1])
                        THEN RegisteredClass(fsp.types[1]) \cup {fsp.types[1]}
                        ELSE {fsp.types[1]})

C8_Witness ==
    /\ fsp.op = "matched" /\ Registered(fsp.types[1])
    /\ Cardinality(fsp.matching) >= 2
    /\ \E t \in FinderTypes : ~Registered(t)

Symmetric == \A a, b \in Types : (b \in ClassOf(a)) <=> (a \in ClassOf(b))

PairwiseDisjoint(sets) ==
    \A i, j \in 1..Len(sets) : i # j => sets[i] \cap sets[j] = {}

\* C9 as stated: the registry built from any list of sets, sets sharing a
\* member included, is symmetric
C9_SymmetricAnyList == fsp.op = "created" => Symmetric

\* C9: for the registry built by _create_equivalent_types_dict from a list
\* of pairwise disjoint sets (the default table is one), b is in the class
\* returned for a if and only if a is in the class returned for b
C9_SymmetricDisjoint ==
    (fsp.op = "created" /\ PairwiseDisjoint(fsp.eq)) => Symmetric

C9_Witness ==
    /\ fsp.op = "created" /\ Len(fsp.eq) = 2 /\ PairwiseDisjoint(fsp.eq)
    /\ \E a, b \in FinderTypes : a # b /\ b \in ClassOf(a)

CallNodes(g) == {n \in NodeIds(g) : g[n].op = "call_function"}

\* y = relu(conv2d(x, w, b)): the graph computes a convolution of the input
\* with a weight and a bias node, and a relu of it
IsReluOfConv(g, conv, relu) ==
    /\ CallNodes(g) = {conv, relu}
    /\ IsAtenConv(g, conv)
    /\ \A k \in 1..3 : IsNode(g[conv].args[k])
    /\ g[g[conv].args[1]].op = "placeholder"
    /\ g[relu].target = "aten.relu.default" /\ g[relu].args = <<conv>>

CallsEnded(n) == Len(log) > n \/ (Len(log) = n /\ pc = "idle")

\* C5: on y = relu(conv2d(x, w, b)) under the static non-QAT symmetric
\* config, QNNPackQuantizer.annotate returns with the conv node annotated by
\* {x: activation, w: weight, b: bias} and no output_qspec, and the relu node
\* annotated with the activation spec as output_qspec
C5_ConvReluExample ==
    \A conv, relu \in NodeIds(graph) :
        (/\ backend = "qnnpack" /\ IsReluOfConv(graph, conv, relu)
         /\ CallsEnded(1) /\ log[1].cfg = "symmetric")
        => LET cfg == get_symmetric_quantization_config(FALSE, FALSE)
               a == graph[conv].args
           IN /\ log[1].result = "returned"
              /\ meta[conv].present /\ meta[conv]._annotated
              /\ DOMAIN meta[conv].input_qspec_map = {a[1], a[2], a[3]}
              /\ meta[conv].input_qspec_map[a[1]] = cfg.activation
              /\ meta[conv].input_qspec_map[a[2]] = cfg.weight
              /\ meta[conv].input_qspec_map[a[3]] = cfg.bias
              /\ meta[conv].output_qspec = NoneSpec
              /\ meta[relu].present /\ meta[relu]._annotated
              /\ meta[relu].output_qspec = cfg.activation

C5_Witness ==
    /\ backend = "qnnpack" /\ Len(log) = 1 /\ pc = "idle" /\ log[1].cfg = "symmetric"
    /\ \E conv, relu \in NodeIds(graph) : IsReluOfConv(graph, conv, relu)

\* the conv -> batchnorm -> relu chains of the graph, as the matcher returns
\* them, in which the batchnorm output feeds the relu only
ConvBnReluChains ==
    LET r == find_sequential_partitions(graph, <<"nn.Conv2d", "nn.BatchNorm2d", "nn.ReLU">>,
                                        _EQUIVALET_TYPES_DICT)
    IN {c \in Range(r.fused_partitions) :
            \A k \in 1..3 : Len(c[k].output_nodes) = 1} 

ChainAnchors(c) == <<c[3].output_nodes[1], c[2].output_nodes[1], c[1].output_nodes[1]>>

LinearChain(c) == Cardinality(Users(graph, c[2].output_nodes[1])) = 1

\* the running or last call is under the QAT config and is past its fused
\* conv+bn+relu annotator
PastFused ==
    /\ Len(log) >= 1 /\ CallConfig = "symmetric_qat"
    /\ IF pc = "idle" THEN log[Len(log)].at \notin {"qnnpack.linear", "qnnpack.conv2d_bn_relu"}
       ELSE pc \notin {"qnnpack.linear", "qnnpack.conv2d_bn_relu"}

\* C3: under the QAT config, once the fused conv+bn+relu annotator has run
\* over a conv -> batchnorm -> relu chain that came un-annotated, every node
\* of the three partitions is _annotated before conv+bn, conv+relu and plain
\* conv run, and through them to the end of the call the conv node keeps
\* exactly the fused annotation: its input_qspec_map and no output_qspec
C3_FusedPrecedence ==
    \A c \in ConvBnReluChains :
        (/\ backend = "qnnpack" /\ PastFused /\ LinearChain(c)
         /\ ~_is_annotated(log[Len(log)].before, ChainAnchors(c)))
        => LET conv_node == c[1].output_nodes[1]
               relu_node == c[3].output_nodes[1]
           IN /\ \A n \in Range(c[1].nodes \o c[2].nodes \o c[3].nodes) : Annotated(meta, n)
              /\ meta[conv_node] =
                    QuantizationAnnotation(
                        conv_input_qspec_map(graph, conv_node, "symmetric_qat").map,
                        NoneSpec, FALSE, TRUE)
              /\ meta[relu_node].output_qspec = get_act_qspec("symmetric_qat")

\* the plain conv annotator has run after the fused one claimed a chain
C3_Witness ==
    /\ backend = "qnnpack" /\ PastFused /\ pc = "qnnpack.maxpool2d"
    /\ \E c \in ConvBnReluChains :
          LinearChain(c) /\ ~_is_annotated(log[Len(log)].before, ChainAnchors(c))

AddNodes(g) == {n \in CallNodes(g) : g[n].target = "aten.add.Tensor"}

\* the graph with the two operands of every add exchanged
SwapAdd(g) ==
    [n \in DOMAIN g |->
        IF n \in AddNodes(g) THEN [g[n] EXCEPT !.args = <<g[n].args[2], g[n].args[1]>>]
        ELSE g[n]]

\* every add that takes a node of a conv instance takes a node as its
\* other operand
TensorOperands(g) ==
    \A a \in AddNodes(g) :
        (\E k \in 1..2 : IsNode(g[a].args[k]) /\ g[g[a].args[k]].styp \in {"nn.Conv2d", "F.conv2d"})
            => \A k \in 1..2 : IsNode(g[a].args[k])

BinaryAnnotator(at, g, quantization_config, m) ==
    IF at = "x86.conv2d_binary_unary"
    THEN X86_annotate_conv2d_binary_unary(g, quantization_config, m)
    ELSE X86_annotate_conv2d_binary(g, quantization_config, m)

\* an add the step annotates has a conv operand that receives activation,
\* weight and bias specs, and maps its other operand to the activation spec
AddAnnotatedWithConv(a, cfg, m) ==
    \E k \in 1..2 :
        LET conv == graph[a].args[k]
            other == graph[a].args[3 - k]
        IN /\ IsAtenConv(graph, conv)
           /\ m[conv].input_qspec_map = conv_input_qspec_map(graph, conv, cfg).map
           /\ m[a].input_qspec_map = MapSet(EmptyMap, other, get_act_qspec(cfg))

\* C10: the conv+add+relu and conv+add annotators of X86InductorQuantizer,
\* run on a graph whose adds take tensors, end as they would on the graph
\* with the add operands exchanged, with the same annotation on every node;
\* an add they annotate maps its non-conv operand to the activation spec and
\* its conv operand gets activation, weight and bias specs
C10_OperandSymmetry ==
    [][(pc \in {"x86.conv2d_binary_unary", "x86.conv2d_binary"} /\ TensorOperands(graph)) =>
          LET swapped == BinaryAnnotator(pc, SwapAdd(graph), CallConfig, meta) IN
          /\ meta' = swapped.meta
          /\ (pc' = "idle") <=> (swapped.err # "none")
          /\ \A a \in AddNodes(graph) :
                meta'[a] # meta[a] => AddAnnotatedWithConv(a, CallConfig, meta')]_vars

\* the conv+add annotator has annotated add(other, conv_output), the conv
\* in the second slot
C10_Witness ==
    /\ pc = "x86.conv2d_unary"
    /\ \E a \in AddNodes(graph) :
          LET other == graph[a].args[1]
              conv == graph[a].args[2]
          IN /\ IsNode(other) /\ IsNode(conv) /\ other # conv
             /\ IsAtenConv(graph, conv) /\ ~IsAtenConv(graph, other)
             /\ Annotated(meta, a) /\ Annotated(meta, conv)
             /\ meta[a].input_qspec_map = MapSet(EmptyMap, other, get_act_qspec(CallConfig))

\* the connected matches of a composite pattern of X86InductorQuantizer
Matches(types) ==
    Range(find_sequential_partitions(graph, types, _EQUIVALET_TYPES_DICT).fused_partitions)

ConvAddRelu == Matches(<<"nn.Conv2d", "operator.add", "nn.ReLU">>)
ConvAdd == Matches(<<"nn.Conv2d", "operator.add">>)
ConvRelu == Matches(<<"nn.Conv2d", "nn.ReLU">>)

Out(p) == p.output_nodes[1]

\* the annotation a composite annotator leaves on its conv node
FusedConv(conv, cfg) ==
    QuantizationAnnotation(conv_input_qspec_map(graph, conv, cfg).map, NoneSpec, FALSE, TRUE)

\* every node of a match carries what the annotator of the longest pattern
\* matching it writes: conv+add+relu over conv+add, and any composite over
\* the plain conv annotator
CoarsestWins(cfg) ==
    /\ \A t \in ConvAddRelu :
          /\ meta[Out(t[1])] = FusedConv(Out(t[1]), cfg)
          /\ Annotated(meta, Out(t[2])) /\ meta[Out(t[2])].output_qspec = NoneSpec
          /\ Annotated(meta, Out(t[3])) /\ meta[Out(t[3])].output_qspec = get_act_qspec(cfg)
    /\ \A t \in ConvAdd :
          /\ meta[Out(t[1])] = FusedConv(Out(t[1]), cfg)
          /\ Annotated(meta, Out(t[2]))
          /\ (\A u \in ConvAddRelu : Out(u[2]) # Out(t[2]))
                => meta[Out(t[2])].output_qspec = get_act_qspec(cfg)
    /\ \A t \in ConvRelu : meta[Out(t[1])] = FusedConv(Out(t[1]), cfg)

X86Returned ==
    /\ backend = "x86" /\ CallsEnded(1) /\ log[1].cfg = "x86_default"
    /\ log[1].result = "returned"

\* C4 as stated: after X86InductorQuantizer.annotate every node of a
\* connected match is annotated by the annotator of the longest pattern that
\* matches it
C4_CoarsestWinsAnyGraph == X86Returned => CoarsestWins("x86_default")

SharingTypes == {"nn.Hardtanh", "torch.mean", "nn.AdaptiveAvgPool2d"}
MaxpoolTypes == {"nn.MaxPool2d", "F.max_pool2d"}

\* the annotated nodes of instances of the given types whose annotation
\* carries an output_qspec
CarriesOutput(types) ==
    {n \in NodeIds(graph) : /\ graph[n].styp \in types /\ Annotated(meta, n)
                            /\ meta[n].output_qspec # NoneSpec}

\* the annotation has one input_qspec_map entry, equal to spec
OneInputEqual(qa, spec) ==
    /\ Cardinality(DOMAIN qa.input_qspec_map) = 1
    /\ \A k \in DOMAIN qa.input_qspec_map : qa.input_qspec_map[k] = spec

\* C11 as stated: on every annotated hardtanh, mean, adaptive-avg-pool and
\* maxpool instance the annotation that carries output_qspec has exactly one
\* input_qspec_map entry, equal to output_qspec, and shares observers
C11_SharingOnOneAnnotation ==
    \A n \in CarriesOutput(SharingTypes \cup MaxpoolTypes) :
        /\ OneInputEqual(meta[n], meta[n].output_qspec)
        /\ meta[n]._input_output_share_observers

\* the node of n's instance that calls max_pool2d_with_indices
MaxpoolNodeOf(n) ==
    {k \in NodeIds(graph) : /\ graph[k].src = graph[n].src
                            /\ graph[k].target = "aten.max_pool2d_with_indices.default"}

\* C11: on every annotated hardtanh, mean and adaptive-avg-pool instance the
\* annotation that carries output_qspec has exactly one input_qspec_map
\* entry, equal to output_qspec, and shares observers; on every annotated
\* maxpool instance the annotation that carries output_qspec shares
\* observers and has no input entry, and the single input entry, equal to
\* that output_qspec, is on the annotated maxpool node of the instance
C11_ShapePreservingSharing ==
    /\ \A n \in CarriesOutput(SharingTypes) :
          /\ OneInputEqual(meta[n], meta[n].output_qspec)
          /\ meta[n]._input_output_share_observers
    /\ \A n \in CarriesOutput(MaxpoolTypes) :
          /\ meta[n]._input_output_share_observers
          /\ meta[n].input_qspec_map = EmptyMap
          /\ MaxpoolNodeOf(n) # {}
          /\ \A k \in MaxpoolNodeOf(n) :
                /\ Annotated(meta, k) /\ meta[k].output_qspec = NoneSpec
                /\ OneInputEqual(meta[k], meta[n].output_qspec)

\* annotate has returned on a graph with an annotated maxpool instance and
\* an annotated hardtanh, mean or adaptive-avg-pool instance
C11_Witness ==
    /\ backend = "qnnpack" /\ Returned(1) /\ pc = "idle"
    /\ CarriesOutput(SharingTypes) # {} /\ CarriesOutput(MaxpoolTypes) # {}

\* the partitions of the given source types in the order the annotator
\* iterates over them, each as an instance of its own
Singles(types) ==
    LET ps == chain_values(get_source_partitions(graph, types)) IN
    [k \in 1..Len(ps) |-> <<ps[k]>>]

\* the connected matches of a composite pattern, in the matcher's order
Fused(types) == find_sequential_partitions(graph, types, _EQUIVALET_TYPES_DICT).fused_partitions

\* the pattern instances the annotator at pc value at iterates over, in its
\* order
InstanceSeq(at) ==
    CASE at = "qnnpack.linear" -> Singles({"nn.Linear"})
      [] at = "qnnpack.conv2d_bn_relu" -> Fused(<<"nn.Conv2d", "nn.BatchNorm2d", "nn.ReLU">>)
      [] at = "qnnpack.conv2d_bn" -> Fused(<<"nn.Conv2d", "nn.BatchNorm2d">>)
      [] at = "qnnpack.conv2d_relu" -> Fused(<<"nn.Conv2d", "nn.ReLU">>)
      [] at = "qnnpack.conv2d" -> Singles({"nn.Conv2d", "F.conv2d"})
      [] at = "qnnpack.maxpool2d" -> Singles(MaxpoolTypes)
      [] at = "qnnpack.add_relu" -> Fused(<<"torch.add", "nn.ReLU">>)
      [] at = "qnnpack.add" -> Singles({"operator.add", "torch.add"})
      [] at = "qnnpack.hardtanh" -> Singles({"nn.Hardtanh"})
      [] at = "qnnpack.mean" -> Singles({"torch.mean"})
      [] at = "qnnpack.adaptive_avg_pool2d" -> Singles({"nn.AdaptiveAvgPool2d"})
      [] at = "x86.conv2d_binary_unary" -> Fused(<<"nn.Conv2d", "operator.add", "nn.ReLU">>)
      [] at = "x86.conv2d_binary" -> Fused(<<"nn.Conv2d", "operator.add">>)
      [] at = "x86.conv2d_unary" -> Fused(<<"nn.Conv2d", "nn.ReLU">>)
      [] at = "x86.conv2d" -> Singles({"nn.Conv2d", "F.conv2d"})
      [] OTHER -> <<>>

Instances(at) == Range(InstanceSeq(at))

\* the annotators that test len(output_nodes) > 1 on their partitions
ChecksOutputs ==
    {"qnnpack.conv2d_bn_relu", "qnnpack.conv2d_bn", "qnnpack.conv2d_relu", "qnnpack.conv2d",
     "qnnpack.add_relu", "x86.conv2d_binary_unary", "x86.conv2d_binary", "x86.conv2d_unary",
     "x86.conv2d"}

\* the annotators that take output_nodes[0] untested
TakesFirstOutput ==
    {"qnnpack.linear", "qnnpack.maxpool2d", "qnnpack.add", "qnnpack.hardtanh", "qnnpack.mean",
     "qnnpack.adaptive_avg_pool2d"}

MultiOutput(inst) == \E k \in 1..Len(inst) : Len(inst[k].output_nodes) > 1

InstNodes(inst) == UNION {Range(inst[k].nodes) : k \in 1..Len(inst)}

\* the nodes of inst that no other instance of the pass holds
OwnNodes(at, inst) == InstNodes(inst) \ UNION {InstNodes(o) : o \in Instances(at) \ {inst}}

\* the step ends the call with error e
Raises(e) == pc' = "idle" /\ log'[Len(log')].result = e

\* the pass at pc raises ValueError over its instances with more than one
\* output node and leaves their nodes as they were
RaisesOnMultiOutput ==
    (\E inst \in Instances(pc) : MultiOutput(inst)) =>
        /\ Raises("ValueError")
        /\ \A inst \in Instances(pc) :
              MultiOutput(inst) => \A n \in OwnNodes(pc, inst) : meta'[n] = meta[n]

\* C12 as stated: every pattern annotator raises a shape error when a
\* matched partition of an instance has more than one output node, and does
\* not annotate that instance
C12_EveryAnnotatorRaises ==
    [][(pc \in ChecksOutputs \cup TakesFirstOutput) => RaisesOnMultiOutput]_vars

\* C12: the conv, conv+bn, conv+bn+relu, conv+relu and add+relu annotators
\* of QNNPackQuantizer and the four annotators of X86InductorQuantizer
\* raise ValueError when a partition of a matched instance has more than one
\* output node, and do not annotate that instance
C12_CheckedAnnotatorsRaise ==
    [][(pc \in ChecksOutputs) => RaisesOnMultiOutput]_vars

\* annotate has returned although a hardtanh, mean, adaptive-avg-pool,
\* maxpool, add or linear partition has two output nodes, the first of which
\* it annotated
C12_Witness ==
    /\ backend = "qnnpack" /\ Returned(1) /\ pc = "idle"
    /\ \E at \in TakesFirstOutput : \E inst \in Instances(at) :
          /\ MultiOutput(inst)
          /\ Annotated(meta, inst[1].output_nodes[1])
          /\ ~Annotated(log[1].before, inst[1].output_nodes[1])

\* the instance's partitions have one output node each, and that of its
\* conv partition is not a call of aten.convolution
NonConvAnchor(inst) ==
    /\ \A k \in 1..Len(inst) : Len(inst[k].output_nodes) = 1
    /\ ~IsAtenConv(graph, inst[1].output_nodes[1])

\* the node reads as a conv: three arguments, the first two of them nodes
ReadsAsConv(n) ==
    Len(graph[n].args) >= 3 /\ IsNode(graph[n].args[1]) /\ IsNode(graph[n].args[2])

FusedConvPasses ==
    {"qnnpack.conv2d_bn_relu", "qnnpack.conv2d_bn", "qnnpack.conv2d_relu",
     "x86.conv2d_binary_unary", "x86.conv2d_binary", "x86.conv2d_unary"}

\* the step ends the call with some exception
RaisesAny == pc' = "idle" /\ log'[Len(log')].result # "returned"

\* C13 as stated: every fused annotator of both backends raises when the
\* conv node of a matched instance is not a call of aten.convolution
C13_EveryFusedAnnotatorRaises ==
    [][(pc \in FusedConvPasses /\ \E inst \in Instances(pc) : NonConvAnchor(inst))
            => RaisesAny]_vars

\* C13: when the conv node of a matched instance is not a call of
\* aten.convolution, the conv+relu annotator of QNNPackQuantizer raises
\* ValueError and leaves the instance as it was; the conv+add+relu, conv+add
\* and conv+relu annotators of X86InductorQuantizer pass over the instance
\* without raising ValueError and without changing it; the conv+bn and
\* conv+bn+relu annotators of QNNPackQuantizer do not test the operator: when
\* the node has one user they raise no ValueError, and annotate the node as
\* a conv when its arguments read as a conv's
C13_NonCanonicalConv ==
    [][\A inst \in Instances(pc) : NonConvAnchor(inst) =>
          LET conv_node == inst[1].output_nodes[1]
              untouched == \A n \in OwnNodes(pc, inst) : meta'[n] = meta[n]
          IN /\ pc = "qnnpack.conv2d_relu" => Raises("ValueError") /\ untouched
             /\ pc \in {"x86.conv2d_binary_unary", "x86.conv2d_binary", "x86.conv2d_unary"}
                   => ~Raises("ValueError") /\ untouched
             /\ (/\ pc \in {"qnnpack.conv2d_bn_relu", "qnnpack.conv2d_bn"}
                 /\ Cardinality(Users(graph, conv_node)) = 1)
                   => /\ ~Raises("ValueError")
                      /\ ReadsAsConv(conv_node) => Annotated(meta', conv_node)]_vars

\* the conv+relu annotator of X86InductorQuantizer has passed over a
\* conv+relu match whose conv node is not a call of aten.convolution
C13_Witness ==
    /\ pc = "x86.conv2d"
    /\ \E inst \in Instances("x86.conv2d_unary") :
          /\ NonConvAnchor(inst)
          /\ \A n \in InstNodes(inst) : ~Annotated(meta, n)

\* the instance over which the annotator at pc value at raises ValueError:
\* a partition with more than one output node where that is tested, a conv
\* node that is not aten.convolution where that is fatal, a conv with a user
\* besides the batchnorm, a Linear without a rank-2 parameter
Malformed(at, inst) ==
    \/ at \in ChecksOutputs /\ MultiOutput(inst)
    \/ /\ at \in {"qnnpack.conv2d_relu", "qnnpack.conv2d", "x86.conv2d"}
       /\ NonConvAnchor(inst)
    \/ /\ at \in {"qnnpack.conv2d_bn_relu", "qnnpack.conv2d_bn"}
       /\ Len(inst[1].output_nodes) = 1
       /\ Cardinality(Users(graph, inst[1].output_nodes[1])) > 1
    \/ /\ at = "qnnpack.linear"
       /\ \A n \in Range(inst[1].params) : graph[n].ndim # 2

\* C14: a pass that meets a malformed instance ends the annotate call with
\* ValueError as its result: the instance, and every instance after it in
\* the annotator's order, is left as it was, no later annotator runs, and
\* nothing is annotated until annotate is called again
C14_ShapeErrorAborts ==
    [][/\ LET seq == InstanceSeq(pc)
              bad == {k \in 1..Len(seq) : Malformed(pc, seq[k])}
          IN bad # {} =>
                /\ Raises("ValueError")
                /\ \A k \in 1..Len(seq) : \A n \in OwnNodes(pc, seq[k]) :
                      (\E b \in bad : b <= k) => meta'[n] = meta[n]
       /\ pc = "idle" => meta' = meta]_vars

\* the plain conv annotator of QNNPackQuantizer, which has annotators after
\* it, has ended the call with ValueError over the first of two conv
\* instances; the second, well-formed, is left without annotation
C14_Witness ==
    /\ pc = "idle" /\ Len(log) = 1
    /\ log[1].result = "ValueError" /\ log[1].at = "qnnpack.conv2d"
    /\ LET seq == InstanceSeq("qnnpack.conv2d") IN
          /\ Len(seq) = 2
          /\ Malformed("qnnpack.conv2d", seq[1]) /\ ~Malformed("qnnpack.conv2d", seq[2])
          /\ \A n \in InstNodes(seq[2]) : ~Annotated(meta, n)

\* the nodes of the instance the annotator at pc value at tests with
\* _is_annotated and writes: the output node of each partition; for maxpool
\* also the max_pool2d_with_indices node; for linear the node that uses the
\* activation, the weight, the bias and the output node
Anchors(at, inst) ==
    LET outs == {inst[k].output_nodes[1] : k \in {j \in 1..Len(inst) : inst[j].output_nodes # <<>>}}
        p == inst[1]
        rank2(n) == graph[n].ndim = 2
        rank1(n) == graph[n].ndim = 1
        usesAct(n) == p.input_nodes # <<>> /\ n \in Users(graph, p.input_nodes[1])
        isPool(n) == graph[n].target = "aten.max_pool2d_with_indices.default"
    IN CASE at = "qnnpack.linear" ->
                (outs \cup {LastWhere(p.params, rank2), LastWhere(p.params, rank1),
                            FirstWhere(p.nodes, usesAct)}) \ {NonNode}
         [] at = "qnnpack.maxpool2d" -> (outs \cup {LastWhere(p.nodes, isPool)}) \ {NonNode}
         [] OTHER -> outs

\* the anchor that takes the instance's input: it carries the input specs
InputAnchor(at, inst) ==
    LET p == inst[1]
        usesAct(n) == p.input_nodes # <<>> /\ n \in Users(graph, p.input_nodes[1])
        isPool(n) == graph[n].target = "aten.max_pool2d_with_indices.default"
    IN CASE at = "qnnpack.linear" -> FirstWhere(p.nodes, usesAct)
         [] at = "qnnpack.maxpool2d" -> LastWhere(p.nodes, isPool)
         [] OTHER -> p.output_nodes[1]

\* every anchor is marked, the input anchor has its input specs, and the
\* last partition's output node has the activation spec as output_qspec
FullyAnnotated(at, inst, cfg, m) ==
    /\ \A a \in Anchors(at, inst) : Annotated(m, a)
    /\ m[InputAnchor(at, inst)].input_qspec_map # EmptyMap
    /\ m[inst[Len(inst)].output_nodes[1]].output_qspec = get_act_qspec(cfg)

Untouched(at, inst, m) == \A a \in Anchors(at, inst) : ~m[a].present

\* the passes of the call so far, the running one left out
PassesDone ==
    IF log = <<>> THEN {}
    ELSE LET order == IF backend = "qnnpack"
                      THEN <<"qnnpack.linear", "qnnpack.conv2d_bn_relu", "qnnpack.conv2d_bn",
                             "qnnpack.conv2d_relu", "qnnpack.conv2d", "qnnpack.maxpool2d",
                             "qnnpack.add_relu", "qnnpack.add", "qnnpack.hardtanh",
                             "qnnpack.mean", "qnnpack.adaptive_avg_pool2d">>
                      ELSE <<"x86.conv2d_binary_unary", "x86.conv2d_binary",
                             "x86.conv2d_unary", "x86.conv2d">>
             ran(at) == \/ log[Len(log)].cfg = "symmetric_qat"
                        \/ at \notin {"qnnpack.conv2d_bn_relu", "qnnpack.conv2d_bn"}
         IN {order[i] : i \in {j \in 1..Len(order) :
                                  /\ ran(order[j])
                                  /\ \E k \in (j + 1)..Len(order) : order[k] = pc}}

\* C15 as stated: on a graph handed over without annotations, in every
\* state a later pass observes, every instance of every annotator that has
\* run is fully annotated or untouched
C15_EveryInstanceWholeOrUntouched ==
    \A at \in PassesDone : \A inst \in Instances(at) :
        (\A n \in NodeIds(graph) : ~log[1].before[n].present) =>
            \/ \A a \in Anchors(at, inst) : Annotated(meta, a)
            \/ Untouched(at, inst, meta)

\* C15: every node whose annotation a pass changes belongs to an instance
\* of that pass. For every annotator but the linear one, none of the
\* instance's anchors was annotated before and the pass leaves it fully
\* annotated: all anchors marked, the input specs on the input anchor, the
\* activation spec as output_qspec on the output node. The linear annotator
\* changes only nodes that were not annotated, leaves every node of the
\* partition marked, and leaves it fully annotated when none of its
\* anchors was annotated before
C15_NoPartialSuccess ==
    [][\A n \in NodeIds(graph) :
          meta'[n] # meta[n] =>
             \E inst \in Instances(pc) :
                /\ n \in InstNodes(inst)
                /\ IF pc # "qnnpack.linear"
                   THEN /\ \A a \in Anchors(pc, inst) : ~Annotated(meta, a)
                        /\ FullyAnnotated(pc, inst, CallConfig, meta')
                   ELSE /\ ~Annotated(meta, n)
                        /\ \A o \in InstNodes(inst) : Annotated(meta', o)
                        /\ (\A a \in Anchors(pc, inst) : ~Annotated(meta, a))
                              => FullyAnnotated(pc, inst, CallConfig, meta')]_vars

\* the linear pass has raised ValueError over its second partition, which
\* has no rank-2 weight and is left untouched, after its first partition,
\* one anchor of which came annotated, had its other anchors written and
\* every node marked
C15_Witness ==
    /\ pc = "idle" /\ Len(log) = 1 /\ log[1].result = "ValueError"
    /\ log[1].at = "qnnpack.linear"
    /\ LET seq == InstanceSeq(log[1].at) IN
          /\ Len(seq) = 2
          /\ \E a \in Anchors(log[1].at, seq[1]) : Annotated(log[1].before, a)
          /\ \E a \in Anchors(log[1].at, seq[1]) :
                ~Annotated(log[1].before, a) /\ meta[a] # log[1].before[a]
          /\ \A n \in InstNodes(seq[1]) : Annotated(meta, n)
          /\ Malformed(log[1].at, seq[2])
          /\ Untouched(log[1].at, seq[2], meta)

\* some anchor of the instance is marked annotated
Claimed(at, inst, m) == \E a \in Anchors(at, inst) : Annotated(m, a)

\* the step leaves the nodes of the instance that no other instance of the
\* pass holds as they were
Skipped(at, inst) == \A n \in OwnNodes(at, inst) : meta'[n] = meta[n]

\* C16 as stated: every annotator, the linear one included, leaves an
\* instance as it was when one of its anchors is already marked annotated
C16_EveryAnnotatorSkips ==
    [][\A inst \in Instances(pc) : Claimed(pc, inst, meta) => Skipped(pc, inst)]_vars

\* C16: every annotator but the linear one leaves an instance as it was
\* when one of its anchors is already marked annotated; the linear
\* annotator tests each anchor on its own: an anchor already marked keeps
\* its annotation, an instance with every node marked is left as it was,
\* and otherwise, unless the pass raises, the unmarked anchors are written
\* and every node of the partition is marked
C16_SkipIfAnnotated ==
    [][\A inst \in Instances(pc) :
          IF pc # "qnnpack.linear"
          THEN Claimed(pc, inst, meta) => Skipped(pc, inst)
          ELSE /\ \A a \in Anchors(pc, inst) : Annotated(meta, a) => meta'[a] = meta[a]
               /\ (\A n \in InstNodes(inst) : Annotated(meta, n)) => Skipped(pc, inst)
               /\ ~RaisesAny => \A n \in InstNodes(inst) : Annotated(meta', n)]_vars

\* the linear annotator has run over a partition one anchor of which the
\* caller had annotated, and has written another anchor of it
C16_Witness ==
    /\ Len(log) = 1 /\ pc # "idle" /\ pc # "qnnpack.linear" /\ backend = "qnnpack"
    /\ \E inst \in Instances("qnnpack.linear") :
          /\ Claimed("qnnpack.linear", inst, log[1].before)
          /\ \E a \in Anchors("qnnpack.linear", inst) :
                ~log[1].before[a].present /\ meta[a].output_qspec # NoneSpec

CompositePasses ==
    {"qnnpack.conv2d_bn_relu", "qnnpack.conv2d_bn", "qnnpack.conv2d_relu", "qnnpack.add_relu",
     "x86.conv2d_binary_unary", "x86.conv2d_binary", "x86.conv2d_unary"}

\* the step annotates the instance: its anchors, unmarked before, are fully
\* annotated after
Annotates(at, inst) ==
    /\ \A a \in Anchors(at, inst) : ~Annotated(meta, a)
    /\ FullyAnnotated(at, inst, CallConfig, meta')

\* C17 as stated: after a composite annotator annotates an instance, every
\* node of every partition of the match is marked annotated
C17_EveryPartitionNodeMarked ==
    [][\A inst \in Instances(pc) :
          (pc \in CompositePasses /\ Annotates(pc, inst))
             => \A n \in InstNodes(inst) : Annotated(meta', n)]_vars

\* C17: after the conv+bn or the conv+bn+relu annotator annotates an
\* instance, every node of every partition of the match is marked annotated
C17_BnPartitionNodesMarked ==
    [][\A inst \in Instances(pc) :
          (pc \in {"qnnpack.conv2d_bn_relu", "qnnpack.conv2d_bn"} /\ Annotates(pc, inst))
             => \A n \in InstNodes(inst) : Annotated(meta', n)]_vars

\* annotate has returned with a conv+relu match annotated whose Conv2d
\* partition holds a parameter node that carries no annotation
C17_Witness ==
    /\ Returned(1) /\ pc = "idle"
    /\ \E at \in {"qnnpack.conv2d_relu", "x86.conv2d_unary"} : \E inst \in Instances(at) :
          /\ ~Claimed(at, inst, log[1].before)
          /\ FullyAnnotated(at, inst, log[1].cfg, meta)
          /\ \E n \in InstNodes(inst) : graph[n].op = "get_attr" /\ ~meta[n].present

BnTypes == {"nn.BatchNorm2d", "F.batch_norm"}

BnPasses == {"qnnpack.conv2d_bn_relu", "qnnpack.conv2d_bn"}

\* C18: the conv+bn and conv+bn+relu annotators run only in a call whose
\* config is QAT, and as long as no call was made under a QAT config no
\* node of a batchnorm partition carries an annotation
C18_QatGating ==
    /\ pc \in BnPasses => ConfigOf(CallConfig).is_qat
    /\ (\A i \in 1..Len(log) : log[i].cfg = "None" \/ ~ConfigOf(log[i].cfg).is_qat)
          => \A n \in NodeIds(graph) : graph[n].styp \in BnTypes => ~meta[n].present

\* annotate has returned under the non-QAT symmetric config on a graph with
\* a connected conv+bn match: the conv is annotated by another annotator,
\* the batchnorm nodes are not
C18_Witness ==
    /\ backend = "qnnpack" /\ pc = "idle" /\ Len(log) = 1
    /\ log[1].cfg = "symmetric" /\ log[1].result = "returned"
    /\ \E inst \in Instances("qnnpack.conv2d_bn") :
          /\ Annotated(meta, inst[1].output_nodes[1])
          /\ \A n \in Range(inst[2].nodes) : ~meta[n].present

\* the conv partition of the instance has one output node, and that node
\* has more than one user
ConvSharedOut(inst) ==
    /\ Len(inst[1].output_nodes) = 1
    /\ Cardinality(Users(graph, inst[1].output_nodes[1])) > 1

\* C19: when the conv node of a connected conv+bn or conv+bn+relu match has
\* more than one user, the annotator raises ValueError and no node of the
\* match, conv, batchnorm or relu, is written
C19_ConvWithSeveralUsers ==
    [][\A inst \in Instances(pc) :
          (pc \in BnPasses /\ ConvSharedOut(inst))
             => /\ Raises("ValueError")
                /\ \A n \in InstNodes(inst) : meta'[n] = meta[n]]_vars

\* the conv+bn+relu annotator has raised ValueError over a connected
\* conv -> bn -> relu chain whose conv has a second user, and no node of
\* the chain carries an annotation
C19_Witness ==
    /\ pc = "idle" /\ Len(log) = 1
    /\ log[1].result = "ValueError" /\ log[1].at = "qnnpack.conv2d_bn_relu"
    /\ \E inst \in Instances("qnnpack.conv2d_bn_relu") :
          /\ ConvSharedOut(inst) /\ ~MultiOutput(inst)
          /\ \A n \in InstNodes(inst) : ~meta[n].present

\* C20: the linear annotator gives every rank-2 parameter of a partition it
\* annotates the weight spec and every rank-1 parameter the bias spec,
\* wherever they stand among the parameters; over a partition without a
\* rank-2 parameter it raises ValueError and writes nothing on the partition
C20_LinearParamsByRank ==
    [][pc = "qnnpack.linear" =>
          \A inst \in Instances(pc) :
             LET params == Range(inst[1].params) IN
             IF \A n \in params : graph[n].ndim # 2
             THEN /\ Raises("ValueError")
                  /\ \A n \in InstNodes(inst) : meta'[n] = meta[n]
             ELSE (~Claimed(pc, inst, meta) /\ \E n \in InstNodes(inst) : meta'[n] # meta[n])
                     => \A n \in params :
                           /\ graph[n].ndim = 2 => meta'[n].output_qspec = get_weight_qspec(CallConfig)
                           /\ graph[n].ndim = 1 => meta'[n].output_qspec = get_bias_qspec(CallConfig)
                           /\ Annotated(meta', n)]_vars

\* the linear annotator has annotated a partition whose bias parameter
\* comes before its weight parameter
C20_Witness ==
    /\ backend = "qnnpack" /\ Len(log) = 1 /\ log[1].cfg = "symmetric" /\ Returned(1)
    /\ \E inst \in Instances("qnnpack.linear") :
          LET ps == inst[1].params IN
          /\ Len(ps) = 2 /\ graph[ps[1]].ndim = 1 /\ graph[ps[2]].ndim = 2
          /\ meta[ps[1]].output_qspec = get_bias_qspec("symmetric")
          /\ meta[ps[2]].output_qspec = get_weight_qspec("symmetric")
          /\ get_bias_qspec("symmetric") # get_weight_qspec("symmetric")

(***************************************************************************)
(* Per-operator-type configurations and the frame of annotate.             *)
(***************************************************************************)
\* the annotators annotate runs for a configuration, in order
AnnotatorsOf(bk, cfg) ==
    IF bk = "qnnpack"
    THEN <<"qnnpack.linear">> \o
         (IF cfg # "None" /\ ConfigOf(cfg).is_qat
          THEN <<"qnnpack.conv2d_bn_relu", "qnnpack.conv2d_bn">> ELSE <<>>) \o
         <<"qnnpack.conv2d_relu", "qnnpack.conv2d", "qnnpack.maxpool2d", "qnnpack.add_relu",
           "qnnpack.add", "qnnpack.hardtanh", "qnnpack.mean", "qnnpack.adaptive_avg_pool2d">>
    ELSE <<"x86.conv2d_binary_unary", "x86.conv2d_binary", "x86.conv2d_unary", "x86.conv2d">>

AnnotatorAt(at, g, cfg, m) ==
    CASE at = "qnnpack.linear" -> QNNPack_annotate_linear(g, cfg, m)
      [] at = "qnnpack.conv2d_bn_relu" -> QNNPack_annotate_conv2d_bn_relu(g, cfg, m)
      [] at = "qnnpack.conv2d_bn" -> QNNPack_annotate_conv2d_bn(g, cfg, m)
      [] at = "qnnpack.conv2d_relu" -> QNNPack_annotate_conv2d_relu(g, cfg, m)
      [] at = "qnnpack.conv2d" -> QNNPack_annotate_conv2d(g, cfg, m)
      [] at = "qnnpack.maxpool2d" -> QNNPack_annotate_maxpool2d(g, cfg, m)
      [] at = "qnnpack.add_relu" -> QNNPack_annotate_add_relu(g, cfg, m)
      [] at = "qnnpack.add" -> QNNPack_annotate_add(g, cfg, m)
      [] at = "qnnpack.hardtanh" -> QNNPack_annotate_hardtanh(g, cfg, m)
      [] at = "qnnpack.mean" -> QNNPack_annotate_mean(g, cfg, m)
      [] at = "qnnpack.adaptive_avg_pool2d" -> QNNPack_annotate_adaptive_avg_pool2d(g, cfg, m)
      [] at = "x86.conv2d_binary_unary" -> X86_annotate_conv2d_binary_unary(g, cfg, m)
      [] at = "x86.conv2d_binary" -> X86_annotate_conv2d_binary(g, cfg, m)
      [] at = "x86.conv2d_unary" -> X86_annotate_conv2d_unary(g, cfg, m)
      [] at = "x86.conv2d" -> X86_annotate_conv2d(g, cfg, m)

RECURSIVE RunFrom(_, _, _, _, _)
RunFrom(ats, i, g, cfg, m) ==
    IF i > Len(ats) THEN Ok(m)
    ELSE LET r == AnnotatorAt(ats[i], g, cfg, m) IN
         IF r.err # "none" THEN r
         ELSE IF ats[i] = "qnnpack.linear" /\ cfg = "None" THEN Raise(r.meta, "AttributeError")
         ELSE RunFrom(ats, i + 1, g, cfg, r.meta)

\* what annotate does to the annotations m of graph g on a quantizer of
\* backend bk whose global_config is cfg and on which
\* set_config_for_operator_type was never called
AnnotateWithoutOverrides(bk, g, cfg, m) ==
    IF bk = "x86" /\ cfg \notin DOMAIN ImportedRegistry(bk) THEN Raise(m, "KeyError")
    ELSE RunFrom(AnnotatorsOf(bk, cfg), 1, g, cfg, m)

\* the annotations the i-th annotate call left behind, once it has ended
After(i) == IF i < Len(log) THEN log[i + 1].before ELSE meta

EndedCall(i) == i <= Len(log) /\ log[i].result # "running"

\* C21: whatever set_config_for_operator_type calls were made, an annotate
\* call runs on the global_config and ends with the annotations and the
\* outcome it has on a quantizer without such calls; a
\* set_config_for_operator_type call changes operator_type_config only
C21_OverridesWithoutInfluence ==
    /\ [](\A i \in 1..Len(log) : EndedCall(i) =>
            LET r == AnnotateWithoutOverrides(backend, graph, log[i].cfg, log[i].before) IN
            /\ After(i) = r.meta
            /\ log[i].result = IF r.err = "none" THEN "returned" ELSE r.err)
    /\ [][/\ Len(log') > Len(log) => log'[Len(log')].cfg = global_config
          /\ operator_type_config' # operator_type_config =>
                UNCHANGED <<graph, backend, global_config, meta, pc, log,
                            _QUANT_CONFIG_TO_ANNOTATOR, recompute, ckpt>>]_vars

\* an annotate call has written annotations on a quantizer that holds a
\* conv2d configuration other than its global one
C21_Witness ==
    /\ pc # "idle"
    /\ meta # log[Len(log)].before
    /\ "conv2d" \in DOMAIN operator_type_config
    /\ operator_type_config["conv2d"] # CallConfig
    /\ CallConfig # "None"

\* C22: a step of an annotate call, from its entry to its return or raise,
\* leaves the graph (nodes, arguments, operator kinds and targets), the
\* quantizer's global_config and its operator_type_config as they were
C22_AnnotateFrame ==
    [][(pc # "idle" \/ pc' # "idle" \/ Len(log') > Len(log)) =>
          /\ graph' = graph
          /\ \A n \in NodeIds(graph) : Users(graph', n) = Users(graph, n)
          /\ global_config' = global_config
          /\ operator_type_config' = operator_type_config]_vars

\* a second annotate call has returned with new annotations written, on a
\* quantizer holding a global config and a per-operator configuration
C22_Witness ==
    /\ pc = "idle" /\ Len(log) = 2 /\ Returned(2)
    /\ meta # log[2].before
    /\ global_config # "None"
    /\ operator_type_config # [t \in {} |-> "None"]

(***************************************************************************)
(* The annotator registry and the operator catalog.                        *)
(***************************************************************************)
HasAnnotator(c) == c \in DOMAIN _QUANT_CONFIG_TO_ANNOTATOR

\* C23: register_annotator raises KeyError exactly when a config of its list
\* was registered before the call or stands earlier in the list; no config
\* registered before the call changes its annotator, whether the call raises
\* or not; after a call that did not raise every config of the list maps to
\* the one annotator registered, bound to that config
C23_RegisterOnce ==
    call.op = "register_annotator" =>
        LET cs == call.configs
            dup == \E i \in 1..Len(cs) :
                      cs[i] \in DOMAIN call.before \/ \E j \in 1..(i - 1) : cs[j] = cs[i]
        IN /\ call.err = IF dup THEN "KeyError" ELSE "none"
           /\ \A c \in DOMAIN call.before :
                 HasAnnotator(c) /\ _QUANT_CONFIG_TO_ANNOTATOR[c] = call.before[c]
           /\ call.err = "none" =>
                 /\ DOMAIN _QUANT_CONFIG_TO_ANNOTATOR = DOMAIN call.before \cup Range(cs)
                 /\ \A c \in Range(cs) : _QUANT_CONFIG_TO_ANNOTATOR[c] = partial(call.fn, c)

\* a registration of another annotator for a config registered before has
\* raised KeyError, and the first registration stands
C23_Witness ==
    /\ call.op = "register_annotator" /\ call.err = "KeyError"
    /\ \E c \in Range(call.configs) :
          /\ c \in DOMAIN call.before
          /\ call.before[c].fn # call.fn
          /\ _QUANT_CONFIG_TO_ANNOTATOR[c] = call.before[c]

(***************************************************************************)
(* The operand test of the x86 conv+add and conv+add+relu annotators.      *)
(***************************************************************************)
BinaryPasses == {"x86.conv2d_binary_unary", "x86.conv2d_binary"}

SingleOutputs(inst) == \A k \in 1..Len(inst) : Len(inst[k].output_nodes) = 1

\* the two operands of the add node of the instance
Operands(inst) ==
    LET args == graph[Out(inst[2])].args IN {args[k] : k \in 1..Len(args) \cap {1, 2}}

\* neither operand of the add node is a call_function node equal to the
\* conv node of the instance
NeitherOperandIsConv(inst) ==
    \A a \in Operands(inst) :
        ~(IsNode(a) /\ graph[a].op = "call_function" /\ a = Out(inst[1]))

\* the instances of the pass the operand test is to pass over
Unconsumed(at) ==
    {inst \in Instances(at) : SingleOutputs(inst) /\ NeitherOperandIsConv(inst)}

\* C24 as stated: the conv+add and conv+add+relu annotators of
\* X86InductorQuantizer leave an instance as it was when neither operand of
\* its add node is a call_function node equal to its conv node, and a pass
\* over such instances only raises no error
C24_NeitherOperandSkips ==
    [][(pc \in BinaryPasses) =>
          ( /\ \A inst \in Unconsumed(pc) : Skipped(pc, inst)
            /\ (Instances(pc) # {} /\ Unconsumed(pc) = Instances(pc)) => ~RaisesAny )]_vars

\* C24: the same, over the instances whose add node has two graph nodes as
\* operands
C24_NodeOperandsSkip ==
    [][(pc \in BinaryPasses) =>
          ( /\ \A inst \in Unconsumed(pc) : Skipped(pc, inst)
            /\ ( /\ Instances(pc) # {} /\ Unconsumed(pc) = Instances(pc)
                 /\ \A inst \in Instances(pc) : \A a \in Operands(inst) : IsNode(a) )
                  => (~RaisesAny /\ meta' = meta) )]_vars

\* a conv+add pass has raised AttributeError over an instance whose add node
\* takes a number and a node that is not the conv node
C24_Witness ==
    /\ pc = "idle" /\ log # <<>>
    /\ log[Len(log)].at \in BinaryPasses
    /\ log[Len(log)].result = "AttributeError"
    /\ Unconsumed(log[Len(log)].at) = Instances(log[Len(log)].at)
    /\ \E inst \in Instances(log[Len(log)].at) : \E a \in Operands(inst) : ~IsNode(a)

\* a conv+add pass has passed over an instance whose add node takes two
\* nodes, neither of them the conv node
C24_SkipWitness ==
    /\ pc = "x86.conv2d_unary" /\ meta = log[Len(log)].before
    /\ \E inst \in Unconsumed("x86.conv2d_binary") :
          \A a \in Operands(inst) : IsNode(a)

(***************************************************************************)
(* The order of the tuples find_sequential_partitions returns.             *)
(***************************************************************************)
\* the position of partition p in the list
IndexIn(list, p) == CHOOSE i \in 1..Len(list) : list[i] = p

\* tuple a comes before tuple b in the lexicographic order of the cross
\* product of the lists, the first entry being the most significant
LexLess(a, b, lists) ==
    \E k \in 1..Len(lists) :
        /\ \A j \in 1..(k - 1) : a[j] = b[j]
        /\ IndexIn(lists[k], a[k]) < IndexIn(lists[k], b[k])

\* C25: the tuples find_sequential_partitions returns stand in the
\* lexicographic order of the cross product of the per-entry partition lists
\* the matcher gave, the first entry varying slowest; with the tuples being
\* exactly the connected ones, the returned list is a function of the graph
\* and the type sequence
C25_LexicographicOrder ==
    (fsp.op = "found" /\ fsp.err = "none") =>
        LET lists == PartitionLists(fsp.types) IN
        /\ \A i, j \in 1..Len(fsp.out) : i < j => LexLess(fsp.out[i], fsp.out[j], lists)
        /\ fsp.out = find_sequential_partitions(graph, fsp.types, fsp.dict).fused_partitions

\* four tuples are returned, from two partitions of the first entry and two
\* of the second: the second entry varies before the first does
C25_Witness ==
    /\ fsp.op = "found" /\ fsp.err = "none" /\ Len(fsp.types) = 2
    /\ Len(fsp.out) = 4
    /\ fsp.out[1][1] = fsp.out[2][1] /\ fsp.out[1][2] # fsp.out[2][2]
    /\ fsp.out[2][1] # fsp.out[3][1]

(***************************************************************************)
(* A second annotate call, and the claims over all calls.                  *)
(***************************************************************************)
\* the second annotate call is running, after a first one that returned
\* with the same config
SecondCallRunning ==
    /\ Len(log) = 2 /\ pc # "idle"
    /\ Returned(1) /\ log[1].cfg = log[2].cfg

\* the nodes on which the pass at pc executes a store whatever they hold:
\* _annotate_linear calls _mark_nodes_as_annotated on the nodes of every
\* Linear partition it has gone through; the other annotators store only
\* after their _is_annotated test
MarkedAgain ==
    IF pc = "qnnpack.linear"
    THEN UNION {Range(inst[1].nodes) : inst \in Instances("qnnpack.linear")}
    ELSE {}

\* C26 as stated: in a second annotate call with the same config every
\* pass finds every anchor of every candidate claimed, executes no store,
\* and leaves every annotation as it is
C26_NoWritesAllPreClaimed ==
    [][SecondCallRunning =>
          /\ meta' = meta
          /\ MarkedAgain = {}
          /\ \A inst \in Instances(pc) : \A a \in Anchors(pc, inst) : Annotated(meta, a)]_vars

\* C26: when annotate has returned on the graph, every annotator pass of a
\* second annotate call with the same config leaves the annotation record
\* of every node equal to what it was, and the call returns; the linear
\* pass finds every anchor of its partitions claimed and stores
\* _annotated = True again on nodes that hold it already
C26_SecondCallWritesNothing ==
    [][SecondCallRunning =>
          /\ meta' = meta
          /\ pc' = "idle" => log'[2].result = "returned"
          /\ \A n \in MarkedAgain : Annotated(meta, n)
          /\ pc = "qnnpack.linear" =>
                \A inst \in Instances(pc) : \A a \in Anchors(pc, inst) : Annotated(meta, a)]_vars

\* the second call is in its last annotator, over a graph on which the first
\* call annotated a linear partition and a conv
C26_Witness ==
    /\ SecondCallRunning
    /\ pc = "qnnpack.adaptive_avg_pool2d"
    /\ \E inst \in Instances("qnnpack.linear") :
          \A n \in InstNodes(inst) : Annotated(meta, n)
    /\ \E n \in ConvNodes(graph) : Annotated(meta, n)

\* the annotators that annotate a conv node
ConvPasses ==
    {"qnnpack.conv2d_bn_relu", "qnnpack.conv2d_bn", "qnnpack.conv2d_relu", "qnnpack.conv2d",
     "x86.conv2d_binary_unary", "x86.conv2d_binary", "x86.conv2d_unary", "x86.conv2d"}

\* the convolution calls that are the output node of the conv partition of an
\* instance of the pass
ConvAnchors(at) ==
    {n \in ConvNodes(graph) :
        \E inst \in Instances(at) :
            Len(inst[1].output_nodes) >= 1 /\ inst[1].output_nodes[1] = n}

\* the input_qspec_map holds the activation input, the weight and, when the
\* bias argument is a node, the bias, each under its spec, and nothing else
ConvInputsAnnotated(n, cfg, map) ==
    LET args == graph[n].args
        keys == {args[1], args[2]} \cup (IF IsNode(args[3]) THEN {args[3]} ELSE {})
    IN /\ DOMAIN map = keys
       /\ DOMAIN map \subseteq NodeIds(graph)
       /\ map[args[1]] = get_act_qspec(cfg)
       /\ map[args[2]] = get_weight_qspec(cfg)
       /\ IsNode(args[3]) => map[args[3]] = get_bias_qspec(cfg)

\* C27: whenever a conv-anchored annotator of either backend writes the
\* annotation of the convolution node of an instance, the node's
\* input_qspec_map holds the activation input under the activation spec, the
\* weight under the weight spec, the bias under the bias spec if and only if
\* the bias argument is a graph node, and no other key
C27_ConvInputs ==
    [][(pc \in ConvPasses) =>
          \A n \in ConvAnchors(pc) :
              meta'[n] # meta[n] => ConvInputsAnnotated(n, CallConfig, meta'[n].input_qspec_map)]_vars

\* a conv with a bias parameter and a conv without one have been annotated
\* by one call
C27_Witness ==
    /\ pc = "idle" /\ Len(log) = 1 /\ Returned(1)
    /\ \E n1, n2 \in ConvNodes(graph) :
          /\ Annotated(meta, n1) /\ Annotated(meta, n2)
          /\ IsNode(graph[n1].args[3]) /\ ~IsNode(graph[n2].args[3])
          /\ Cardinality(DOMAIN meta[n1].input_qspec_map) = 3
          /\ Cardinality(DOMAIN meta[n2].input_qspec_map) = 2

(***************************************************************************)
(* The operator catalog.                                                   *)
(***************************************************************************)
\* the entries of the backend's catalog that carry the config
EntriesOf(bk, c) ==
    LET entries == supported_config_and_operators(bk) IN
    {k \in 1..Len(entries) : entries[k].config = c}

\* the patterns the catalog lists for the config, over all its entries
PatternsOf(bk, c) ==
    LET entries == supported_config_and_operators(bk) IN
    UNION {Range(entries[k].operators) : k \in EntriesOf(bk, c)}

Queried == call.op = "get_supported_operator_for_quantization_config"

\* C28 as stated: no config stands in more than one entry of a quantizer's
\* catalog, and get_supported_operator_for_quantization_config(config)
\* returns every pattern the catalog lists for the config, the empty list
\* for a config the catalog does not hold
C28_OneEntryPerConfig ==
    /\ \A c \in get_supported_quantization_configs(backend) :
          Cardinality(EntriesOf(backend, c)) <= 1
    /\ (Queried /\ call.configs[1] # "None") =>
          Range(call.ops) = PatternsOf(backend, call.configs[1])

\* C28: what holds of both catalogs: the query returns the patterns of the
\* first entry of the config, the empty list for a config the catalog does
\* not hold, and the patterns of all entries for None
C28_FirstEntryReturned ==
    Queried =>
        LET c == call.configs[1]
            entries == supported_config_and_operators(backend)
        IN IF c = "None"
           THEN Range(call.ops) = UNION {Range(entries[k].operators) : k \in 1..Len(entries)}
           ELSE IF EntriesOf(backend, c) = {} THEN call.ops = <<>>
           ELSE call.ops = entries[Min(EntriesOf(backend, c))].operators

\* the QNNPack catalog was asked for the patterns of a config it holds in
\* several entries, and returned fewer patterns than it lists for the config
C28_Witness ==
    /\ Queried /\ backend = "qnnpack"
    /\ Cardinality(EntriesOf(backend, call.configs[1])) > 1
    /\ Range(call.ops) # PatternsOf(backend, call.configs[1])
    /\ <<"nn.Linear">> \in PatternsOf(backend, call.configs[1]) \ Range(call.ops)

(***************************************************************************)
(* Linear partitions of either source.                                     *)
(***************************************************************************)
\* the partitions the matcher returns for the catalog's linear patterns
LinearPartitions(types) == Range(chain_values(get_source_partitions(graph, types)))

\* the partition carries what the linear annotator writes: the activation
\* input under the activation spec on the node that uses it, the weight and
\* bias specs on the parameters, the activation spec on the output node, and
\* every node marked annotated
LinearAnnotated(p, cfg, m) ==
    /\ \A n \in Range(p.nodes) : Annotated(m, n)
    /\ \E n \in Range(p.nodes) :
          /\ p.input_nodes[1] \in DOMAIN m[n].input_qspec_map
          /\ m[n].input_qspec_map[p.input_nodes[1]] = get_act_qspec(cfg)
    /\ \A n \in Range(p.params) :
          /\ graph[n].ndim = 2 => m[n].output_qspec = get_weight_qspec(cfg)
          /\ graph[n].ndim = 1 => m[n].output_qspec = get_bias_qspec(cfg)
    /\ m[p.output_nodes[1]].output_qspec = get_act_qspec(cfg)

\* QNNPackQuantizer.annotate has returned from its first call on the graph
QNNPackReturned == backend = "qnnpack" /\ Returned(1) /\ log[1].cfg # "None"

\* C29 as stated: after QNNPackQuantizer.annotate every partition of the
\* Linear module and of the functional linear call carries the linear
\* annotations
C29_EveryLinearPartitionAnnotated ==
    QNNPackReturned =>
        \A p \in LinearPartitions({"nn.Linear", "F.linear"}) :
            LinearAnnotated(p, log[1].cfg, After(1))

\* C29: the same, of the partitions of the Linear module only
C29_ModuleLinearAnnotated ==
    QNNPackReturned =>
        \A p \in LinearPartitions({"nn.Linear"}) : LinearAnnotated(p, log[1].cfg, After(1))

\* annotate has returned on a graph with a functional linear call that has a
\* weight and a bias parameter, and no node of the call is annotated
C29_Witness ==
    /\ QNNPackReturned /\ pc = "idle" /\ Len(log) = 1
    /\ \E p \in LinearPartitions({"F.linear"}) :
          /\ \E n \in Range(p.params) : graph[n].ndim = 2
          /\ \E n \in Range(p.params) : graph[n].ndim = 1
          /\ \A n \in Range(p.nodes) : ~meta[n].present

\* C30: over every step of every annotator pass and every annotate call, a
\* node whose annotation has _annotated set keeps an annotation with
\* _annotated set: the set of claimed nodes only grows
C30_ClaimsMonotonic ==
    [][\A n \in NodeIds(graph) : Annotated(meta, n) => Annotated(meta', n)]_vars

\* a second annotate call, with another config, has ended: a node the first
\* call left claimed is still claimed, and the second call claimed another
C30_Witness ==
    /\ pc = "idle" /\ Len(log) = 2
    /\ log[1].cfg # log[2].cfg
    /\ \E n \in NodeIds(graph) : Annotated(log[2].before, n) /\ Annotated(meta, n)
    /\ \E n \in NodeIds(graph) : ~Annotated(log[2].before, n) /\ Annotated(meta, n)

(***************************************************************************)
(* The keys of input_qspec_map.                                            *)
(***************************************************************************)
\* the values that are arguments of node n
ArgsOf(n) == Range(graph[n].args)

\* C31 as stated: in every state, every key of every node's input_qspec_map
\* is a node, and one that is an argument of that node
C31_KeysAreArgumentNodes ==
    \A n \in NodeIds(graph) :
        \A k \in DOMAIN meta[n].input_qspec_map : IsNode(k) /\ k \in ArgsOf(n)

\* C31: every key is an argument of the node, and the only key that is not
\* a node is the number operand of an add that X86InductorQuantizer fused
\* with the convolution producing its other operand, without a relu
C31_KeysAreArguments ==
    \A n \in NodeIds(graph) :
        \A k \in DOMAIN meta[n].input_qspec_map :
            /\ k \in ArgsOf(n)
            /\ ~IsNode(k) =>
                  /\ backend = "x86"
                  /\ graph[n].target = "aten.add.Tensor"
                  /\ meta[n].output_qspec # NoneSpec
                  /\ \E c \in ArgsOf(n) : IsNode(c) /\ IsAtenConv(graph, c) /\ Annotated(meta, c)

\* X86InductorQuantizer.annotate has returned on a graph where an add takes
\* a convolution and a number, and the add's input_qspec_map is keyed by
\* the number
C31_Witness ==
    /\ backend = "x86" /\ pc = "idle" /\ Len(log) = 1 /\ log[1].result = "returned"
    /\ \E n \in NodeIds(graph) :
          /\ graph[n].target = "aten.add.Tensor"
          /\ \E c \in ArgsOf(n) : IsNode(c) /\ IsAtenConv(graph, c)
          /\ NonNode \in ArgsOf(n)
          /\ DOMAIN meta[n].input_qspec_map = {NonNode}

(***************************************************************************)
(* Where the output_qspec of a conv pattern sits.                          *)
(***************************************************************************)
\* the plain conv annotators of the two quantizers
AtomicConvPasses == {"qnnpack.conv2d", "x86.conv2d"}

\* the step claims node n: unmarked before, marked annotated after
Claims(n) == ~Annotated(meta, n) /\ Annotated(meta', n)

\* C32: a convolution node claimed by a pass carries an output_qspec if and
\* only if the pass is the plain conv annotator, and keeps it as it is
\* through every later pass and call; and when a fused conv annotator
\* annotates an instance, the output node of the instance's last partition
\* is the only node of the instance with an output_qspec
C32_OutputOnTerminalOnly ==
    [][/\ \A n \in ConvNodes(graph) :
            /\ Claims(n) => (meta'[n].output_qspec # NoneSpec <=> pc \in AtomicConvPasses)
            /\ Annotated(meta, n) => meta'[n].output_qspec = meta[n].output_qspec
       /\ (pc \in FusedConvPasses) =>
            \A inst \in Instances(pc) :
                Annotates(pc, inst) =>
                    \A a \in InstNodes(inst) :
                        meta'[a].output_qspec # NoneSpec <=> a = Out(inst[Len(inst)])]_vars

\* one call has returned with a conv claimed by a fused annotator, without
\* output_qspec while the last node of its instance has one, and another
\* conv claimed by the plain conv annotator, with an output_qspec
C32_Witness ==
    /\ pc = "idle" /\ Len(log) = 1 /\ Returned(1)
    /\ \E at \in FusedConvPasses : \E inst \in Instances(at) :
          /\ FullyAnnotated(at, inst, log[1].cfg, meta)
          /\ IsAtenConv(graph, Out(inst[1]))
          /\ meta[Out(inst[1])].output_qspec = NoneSpec
          /\ meta[Out(inst[Len(inst)])].output_qspec # NoneSpec
    /\ \E n \in ConvNodes(graph) : Annotated(meta, n) /\ meta[n].output_qspec # NoneSpec

(***************************************************************************)
(* Candidates of one composite pass that share a partition.                *)
(***************************************************************************)
\* two matches hold a partition in common
SharePartition(t1, t2) == \E k \in 1..Len(t1) : \E l \in 1..Len(t2) : t1[k] = t2[l]

\* the tests that make a composite annotator pass over a candidate whatever
\* the annotations: neither operand of the add is the conv node, or the
\* conv node (for conv+relu, the node the relu reads) is not a call of
\* aten.convolution
FailsTests(at, inst) ==
    CASE at \in {"x86.conv2d_binary_unary", "x86.conv2d_binary"} ->
            \/ conv_operand_index(graph, Out(inst[2]), Out(inst[1])).idx = 2
            \/ ~IsAtenConv(graph, Out(inst[1]))
      [] at = "x86.conv2d_unary" ->
            LET read == graph[Out(inst[2])].args[1] IN
            ~(IsNode(read) /\ IsAtenConv(graph, read))
      [] OTHER -> FALSE

X86CompositePasses == {"x86.conv2d_binary_unary", "x86.conv2d_binary", "x86.conv2d_unary"}

\* the number of partitions in the pattern of the annotator
PatternLength(at) == IF at = "x86.conv2d_binary_unary" THEN 3 ELSE 2

\* the matches of the annotator's pattern that hold the node as an anchor
MatchesHolding(at, n) == {t \in Instances(at) : n \in Anchors(at, t)}

\* the composite annotators with the longest pattern that matches the node
Longest(n) ==
    LET holding == {at \in X86CompositePasses : MatchesHolding(at, n) # {}} IN
    {at \in holding : \A o \in holding : PatternLength(o) <= PatternLength(at)}

\* the node carries a composite annotator's annotation: any annotation of
\* an add or relu node, an annotation without output_qspec of a conv node
CompositeClaim(m) ==
    /\ Annotated(meta, m)
    /\ graph[m].styp \in {"nn.Conv2d", "F.conv2d"} => meta[m].output_qspec = NoneSpec

\* the match is the one its annotator annotated: it passes the annotator's
\* tests, its anchors carry composite annotations, and the add's
\* input_qspec_map is keyed by the operand that is not the match's conv
Taken(at, t) ==
    /\ ~FailsTests(at, t)
    /\ \A a \in Anchors(at, t) : CompositeClaim(a)
    /\ at \in {"x86.conv2d_binary_unary", "x86.conv2d_binary"} =>
          LET binary_node == Out(t[2])
              ci == conv_operand_index(graph, binary_node, Out(t[1]))
          IN DOMAIN meta[binary_node].input_qspec_map =
                 {graph[binary_node].args[(1 - ci.idx) + 1]}

\* the annotator passes over the match: its operand or conv test rejects
\* it, or another anchor of it is claimed by a composite match that does
\* not hold the node
PassedOver(at, t, n) ==
    \/ FailsTests(at, t)
    \/ \E m \in Anchors(at, t) \ {n} :
          \E o \in X86CompositePasses : \E u \in Instances(o) :
              m \in Anchors(o, u) /\ n \notin Anchors(o, u) /\ Taken(o, u)

\* what the annotator writes on the node at position k of its match
Carries(at, k, n, cfg) ==
    IF k = 1 THEN meta[n] = FusedConv(n, cfg)
    ELSE /\ Annotated(meta, n)
         /\ meta[n].output_qspec =
               IF at = "x86.conv2d_binary_unary" /\ k = 2 THEN NoneSpec ELSE get_act_qspec(cfg)

\* C4: X86InductorQuantizer.annotate runs conv+add+relu, conv+add, conv+relu
\* and plain conv in this order, and every node held by a match of a
\* composite pattern ends up with what the annotator of the longest
\* pattern matching it writes, unless that annotator passes over every
\* match of the pattern that holds the node
C4_CoarsestWins ==
    X86Returned =>
        \A n \in NodeIds(graph) : \A at \in Longest(n) :
            \/ \A o \in Longest(n) : \A t \in MatchesHolding(o, n) : PassedOver(o, t, n)
            \/ \A t \in MatchesHolding(at, n) : \A k \in 1..Len(t) :
                   n = Out(t[k]) => Carries(at, k, n, "x86_default")

\* after the call on the residual graph: the add of the second branch is
\* held by two conv+add matches, the first was passed over, its conv being
\* claimed by the conv+add+relu annotator, and the add, the second conv
\* and the nodes of the conv+add+relu match carry the composite annotations
C4_Witness ==
    /\ X86Returned /\ pc = "idle"
    /\ \E t \in ConvAddRelu : \E u, v \in ConvAdd :
          /\ u # v /\ u[2] = v[2] /\ u[1] = t[1] /\ u[2] # t[2]
          /\ ~PassedOver("x86.conv2d_binary", v, Out(v[1]))
          /\ meta[Out(v[1])] = FusedConv(Out(v[1]), "x86_default")
          /\ meta[Out(v[2])].output_qspec = get_act_qspec("x86_default")
          /\ meta[Out(t[2])].output_qspec = NoneSpec /\ Annotated(meta, Out(t[2]))
          /\ meta[Out(t[3])].output_qspec = get_act_qspec("x86_default")

(***************************************************************************)
(* X86InductorQuantizer.annotate under a configuration without annotator.  *)
(***************************************************************************)
\* the configuration has no entry in _QUANT_CONFIG_TO_ANNOTATOR
Unregistered(c) == c \notin DOMAIN _QUANT_CONFIG_TO_ANNOTATOR

\* C34: an annotate call of X86InductorQuantizer whose global configuration
\* has no registered annotator, the never-set None included, ends with
\* KeyError inside annotate, no annotator pass runs under it, and the
\* annotations it leaves are those it found
C34_UnregisteredConfigFails ==
    backend = "x86" =>
        /\ \A i \in 1..Len(log) :
              Unregistered(log[i].cfg) =>
                  /\ log[i].result = "KeyError"
                  /\ log[i].at = "annotate"
                  /\ After(i) = log[i].before
        /\ pc # "idle" => ~Unregistered(CallConfig)

\* annotate has failed twice on a graph that came with annotated nodes:
\* once with the global configuration never set, once under a configuration
\* without annotator, and the annotations are as they came
C34_Witness ==
    /\ backend = "x86" /\ pc = "idle" /\ Len(log) = 2
    /\ log[1].cfg = "None" /\ log[1].result = "KeyError"
    /\ log[2].cfg = "symmetric" /\ log[2].result = "KeyError"
    /\ meta = log[1].before
    /\ \E n \in NodeIds(graph) : Annotated(meta, n)

(***************************************************************************)
(* The two quantizers on graphs of conv and relu partitions.               *)
(***************************************************************************)
\* every operator call of the graph belongs to a conv or a relu partition
ConvReluOnly(g) ==
    \A n \in NodeIds(g) :
        g[n].op = "call_function" => g[n].styp \in {"nn.Conv2d", "F.conv2d", "nn.ReLU"}

\* which spec of configuration cfg the value v is
SpecKind(cfg, v) ==
    CASE v = NoneSpec -> "none"
      [] v = get_act_qspec(cfg) -> "activation"
      [] v = get_weight_qspec(cfg) -> "weight"
      [] v = get_bias_qspec(cfg) -> "bias"
      [] OTHER -> "other"

\* an annotation with each spec replaced by its kind
Kinds(cfg, qa) ==
    [present |-> qa.present,
     _annotated |-> qa._annotated,
     _input_output_share_observers |-> qa._input_output_share_observers,
     output_qspec |-> SpecKind(cfg, qa.output_qspec),
     input_qspec_map |-> [k \in DOMAIN qa.input_qspec_map |-> SpecKind(cfg, qa.input_qspec_map[k])]]

\* what X86InductorQuantizer.annotate under its default configuration does
\* to the graph as the first QNNPack call found it
OnX86 == AnnotateWithoutOverrides("x86", graph, "x86_default", log[1].before)

\* QNNPackQuantizer.annotate under the non-QAT symmetric configuration has
\* ended its first call on a graph of conv and relu partitions
QNNPackEndedOnConvRelu ==
    /\ backend = "qnnpack" /\ EndedCall(1) /\ log[1].cfg = "symmetric"
    /\ ConvReluOnly(graph)

\* both calls raise, or both return and leave on every node annotations of
\* the same kinds
SameOutcome ==
    IF log[1].result # "returned" THEN OnX86.err # "none"
    ELSE /\ OnX86.err = "none"
         /\ \A n \in NodeIds(graph) :
               Kinds("symmetric", After(1)[n]) = Kinds("x86_default", OnX86.meta[n])

\* C35 as stated: on every graph of conv and relu partitions only, either
\* QNNPack's annotate under the non-QAT symmetric configuration and x86's
\* annotate under its default configuration both raise, or both return with
\* annotations of the same kinds on every node
C35_BackendsAgreeAnyGraph == QNNPackEndedOnConvRelu => SameOutcome

\* QNNPack's annotate has returned on a graph where a conv feeds a ReLU
\* instance of two aten.relu calls, the conv fused with the instance's
\* output node; x86's annotate returns on it with the conv annotated as a
\* plain conv, with an output_qspec, and the relu left alone
C35_Witness ==
    /\ QNNPackEndedOnConvRelu
    /\ pc = "idle" /\ Len(log) = 1 /\ Returned(1)
    /\ OnX86.err = "none"
    /\ \E c \in ConvNodes(graph) : \E r1, r2 \in NodeIds(graph) :
          /\ graph[r1].args = <<c>> /\ graph[r2].args = <<r1>>
          /\ graph[r1].styp = "nn.ReLU" /\ graph[r1].src = graph[r2].src
          /\ Annotated(meta, c) /\ meta[c].output_qspec = NoneSpec
          /\ Annotated(meta, r2) /\ meta[r2].output_qspec # NoneSpec
          /\ OnX86.meta[c].output_qspec # NoneSpec
          /\ ~Annotated(OnX86.meta, r2)

(***************************************************************************)
(* TagActivationCheckpoint.                                                *)
(***************************************************************************)
\* the step is a call of the operator or of its tag_nodes
TagStep == ckpt'.op # "none" /\ (ckpt' # ckpt \/ recompute' # recompute)

\* the nodes whose recompute entry the step changed
Retagged == {n \in NodeIds(graph) : recompute'[n] # recompute[n]}

\* C36: a call of the operator with a context_fn keyword argument ends with
\* RuntimeError and leaves every recompute tag as it was; any other call,
\* and tag_nodes on its own, leaves recompute true on every call_function
\* node and changes the tag of no other node, and tag_nodes returns the
\* graph module it was given, with the nodes it had
C36_TagsCallFunctionNodes ==
    [][/\ graph' = graph
       /\ (ckpt'.op = "__call__" /\ "context_fn" \in ckpt'.kwargs) =>
             /\ ckpt'.err = "RuntimeError"
             /\ recompute' = recompute
       /\ (ckpt'.op = "tag_nodes" \/ (ckpt'.op = "__call__" /\ "context_fn" \notin ckpt'.kwargs)) =>
             /\ ckpt'.err # "RuntimeError"
             /\ \A n \in NodeIds(graph) :
                   IF graph[n].op = "call_function" THEN recompute'[n] = "True"
                   ELSE recompute'[n] = recompute[n]
       /\ ckpt'.op = "tag_nodes" => ckpt'.ret = "gmod"]_vars

\* tag_nodes has returned on a graph with a submodule or method call and an
\* input that came tagged false: every operator call is tagged true, the
\* other call is not tagged, the input still false
C36_Witness ==
    /\ ckpt.op = "tag_nodes" /\ ckpt.ret = "gmod"
    /\ \E n \in NodeIds(graph) : graph[n].op = "call_function" /\ recompute[n] = "True"
    /\ \E n \in NodeIds(graph) :
          graph[n].op \in {"call_module", "call_method"} /\ recompute[n] = "absent"
    /\ \E n \in NodeIds(graph) : graph[n].op = "placeholder" /\ recompute[n] = "False"

====
